---- MODULE Spec2Model ----
(***************************************************************************)
(* A model of the bexpr predicate language: the PEG parser of the grammar  *)
(* (src/unnamed/part_001, lines 1-287), the evaluator (same file, lines    *)
(* 289-811), the coercion helpers (src/unnamed/part_002) and the AST with  *)
(* its dump (src/grammar/ast.go).                                          *)
(*                                                                         *)
(* Conventions.                                                            *)
(*  - A Go string is a sequence of one-character strings, so that prefix,  *)
(*    substring, concatenation, formatting and parsing are computed.       *)
(*  - A Go value (interface{}) is a record with one field, named after    *)
(*    the value's dynamic type and holding its payload.                    *)
(*  - A predicate text is a sequence of tokens; it stands for the text in  *)
(*    which adjacent tokens are separated by exactly one blank.            *)
(*  - An evaluation result is [val, err, panic, seen]: the returned pair,  *)
(*    whether the call panicked instead of returning, and the AST          *)
(*    positions that evaluation visited.                                   *)
(*                                                                         *)
(* Scope.  Datums are maps, slices, strings, ints, floats and bools;       *)
(* number literals are non-negative; a float is an exact fraction, its     *)
(* arithmetic exact, which float64 is on the halves and quarters the       *)
(* inputs hold; json.Number, float32 and the unsigned kinds are left out.  *)
(* A regular expression is a literal, which matches where it occurs,       *)
(* or an unclosed bracket, which does not compile.  The tag-name and hook  *)
(* options of the evaluator are not set.  The resolver of selectors is the *)
(* library call ptr.Get, modelled by its outcomes on these datums.         *)
(***************************************************************************)
EXTENDS Integers, Sequences, FiniteSets, TLC

VARIABLES
    pc,           \* "input", "parsed", "rejected", "evaluated", "built", "dumped";
                  \* "running" or "done" for each of two evaluations
    text,         \* the predicate text, a sequence of tokens
    ast,          \* the AST the parser returned, Nil when none
    datum,        \* the datum of the last evaluation
    withUnknown,  \* the unknown-value option of the last evaluation
    result,       \* what the last evaluation returned
    out,          \* what the last dump wrote
    indent,       \* the indent unit of the last dump
    level,        \* the level of the last dump
    nots,         \* how many `not` have been put in front of the operand
    operand       \* the AST of the operand the `not` chain is built on

vars == <<pc, text, ast, datum, withUnknown, result, out, indent, level, nots, operand>>

(***************************************************************************)
(* Bounds of the model.                                                    *)
(***************************************************************************)
\* longest chain of leading `not` tokens put in front of an operand
MaxNots == 3
\* longest free token text of the parser specification
MaxTokens == 4
\* deepest indent level of a dump
MaxLevel == 2
\* largest integer literal of the evaluated predicates
MaxLit == 3

(***************************************************************************)
(* Strings.                                                                *)
(***************************************************************************)
RECURSIVE HasPrefix(_, _)
\* strings.HasPrefix(s, prefix)
HasPrefix(s, prefix) ==
    IF prefix = <<>> THEN TRUE
    ELSE IF s = <<>> THEN FALSE
    ELSE Head(s) = Head(prefix) /\ HasPrefix(Tail(s), Tail(prefix))

RECURSIVE Contains(_, _)
\* strings.Contains(s, substr)
Contains(s, substr) ==
    IF HasPrefix(s, substr) THEN TRUE
    ELSE IF s = <<>> THEN FALSE
    ELSE Contains(Tail(s), substr)

RECURSIVE Join(_, _)
\* strings.Join(parts, sep)
Join(parts, sep) ==
    IF parts = <<>> THEN <<>>
    ELSE IF Len(parts) = 1 THEN parts[1]
    ELSE parts[1] \o sep \o Join(Tail(parts), sep)

RECURSIVE Repeat(_, _)
\* strings.Repeat(s, count)
Repeat(s, count) == IF count <= 0 THEN <<>> ELSE s \o Repeat(s, count - 1)

DigitChars == <<"0", "1", "2", "3", "4", "5", "6", "7", "8", "9">>

IsDigit(c) == \E i \in 1..10 : DigitChars[i] = c

DigitVal(c) == (CHOOSE i \in 1..10 : DigitChars[i] = c) - 1

RECURSIVE FormatNat(_)
FormatNat(n) ==
    IF n < 10 THEN <<DigitChars[n + 1]>>
    ELSE FormatNat(n \div 10) \o <<DigitChars[(n % 10) + 1]>>

\* fmt.Sprintf("%v", n) / "%d" of an integer
FormatInt(n) == IF n < 0 THEN <<"-">> \o FormatNat(0 - n) ELSE FormatNat(n)

RECURSIVE DigitsValue(_, _, _)
\* the value of a digit string in the given base, acc being the value so far
DigitsValue(s, base, acc) ==
    IF s = <<>> THEN acc
    ELSE DigitsValue(Tail(s), base, acc * base + DigitVal(Head(s)))

AllDigitsBelow(s, base) ==
    /\ s # <<>>
    /\ \A i \in 1..Len(s) : IsDigit(s[i]) /\ DigitVal(s[i]) < base

\* strconv.ParseInt(s, 0, 64): an optional sign, then decimal digits, or a
\* leading 0 followed by octal digits.  The prefixes 0x, 0b, 0o and the
\* underscore separators need characters the model's strings do not contain.
\* On a syntax error the returned integer is 0.
ParseIntBase0(s) ==
    LET neg  == s # <<>> /\ Head(s) = "-"
        sign == s # <<>> /\ (Head(s) = "-" \/ Head(s) = "+")
        body == IF sign THEN Tail(s) ELSE s
        octal == Len(body) > 1 /\ Head(body) = "0"
        base == IF octal THEN 8 ELSE 10
        digs == IF octal THEN Tail(body) ELSE body
        good == AllDigitsBelow(digs, base)
        mag  == IF good THEN DigitsValue(digs, base, 0) ELSE 0
    IN  [v |-> IF neg THEN 0 - mag ELSE mag, ok |-> good]

RECURSIVE Gcd(_, _)
Gcd(a, b) == IF b = 0 THEN a ELSE Gcd(b, a % b)

Abs(n) == IF n < 0 THEN 0 - n ELSE n

\* the float64 of value num / den as <<numerator, denominator>> in lowest
\* terms with a positive denominator; a denominator 0 stands for +Inf, -Inf
\* and NaN, with numerators 1, -1 and 0
Float(num, den) ==
    IF den = 0 THEN <<IF num > 0 THEN 1 ELSE IF num < 0 THEN 0 - 1 ELSE 0, 0>>
    ELSE LET g == Gcd(Abs(num), Abs(den))
         IN  <<(IF (num < 0) = (den < 0) THEN 1 ELSE 0 - 1) * (Abs(num) \div g),
               Abs(den) \div g>>

IsNaN(x) == x = <<0, 0>>

\* x + y, x - y, x * y and x / y of float64; a division by zero gives an
\* infinity or NaN and does not panic
FloatAdd(x, y) == Float(x[1] * y[2] + y[1] * x[2], x[2] * y[2])
FloatSub(x, y) == Float(x[1] * y[2] - y[1] * x[2], x[2] * y[2])
FloatMul(x, y) == Float(x[1] * y[1], x[2] * y[2])
FloatDiv(x, y) == Float(x[1] * y[2], x[2] * y[1])

\* x < y and x == y of float64
FloatLess(x, y) ==
    /\ ~IsNaN(x) /\ ~IsNaN(y)
    /\ IF x[2] = 0 /\ y[2] = 0 THEN x[1] < y[1] ELSE x[1] * y[2] < y[1] * x[2]
FloatEqual(x, y) == ~IsNaN(x) /\ x = y

RECURSIVE Power10(_)
Power10(n) == IF n = 0 THEN 1 ELSE 10 * Power10(n - 1)

\* strconv.ParseFloat(s, 64) of a decimal text: an optional sign, digits
\* with at most one point among them, one digit at least.  Exponents,
\* hexadecimal texts and the words inf and nan need characters the model's
\* strings do not contain.  On a syntax error the returned float is 0.
ParseFloat(s) ==
    LET neg  == s # <<>> /\ Head(s) = "-"
        sign == s # <<>> /\ (Head(s) = "-" \/ Head(s) = "+")
        body == IF sign THEN Tail(s) ELSE s
        points == {i \in 1..Len(body) : body[i] = "."}
        digs == SelectSeq(body, LAMBDA c : c # ".")
        good == /\ Cardinality(points) <= 1
                /\ digs # <<>>
                /\ \A i \in 1..Len(digs) : IsDigit(digs[i])
        decimals == IF points = {} THEN 0
                    ELSE Len(body) - (CHOOSE i \in points : TRUE)
        mag  == IF good THEN DigitsValue(digs, 10, 0) ELSE 0
    IN  [v |-> IF good THEN Float(IF neg THEN 0 - mag ELSE mag, Power10(decimals))
               ELSE Float(0, 1),
         ok |-> good]

RECURSIVE FractionDigits(_, _, _)
\* the decimals of rest / den, at most n of them
FractionDigits(rest, den, n) ==
    IF rest = 0 \/ n = 0 THEN <<>>
    ELSE <<DigitChars[((10 * rest) \div den) + 1]>>
             \o FractionDigits((10 * rest) % den, den, n - 1)

\* fmt.Sprintf("%v", x) of a float64: the shortest decimal text that gives x
\* back, which for the model's floats (finite decimals from 0.0001 up to
\* 1000000, where %v uses no exponent) is the text of their digits
FormatFloat(x) ==
    IF x[2] = 0
    THEN IF x[1] > 0 THEN <<"+", "I", "n", "f">>
         ELSE IF x[1] < 0 THEN <<"-", "I", "n", "f">>
         ELSE <<"N", "a", "N">>
    ELSE LET mag == Abs(x[1])
             fraction == FractionDigits(mag % x[2], x[2], 17)
         IN  (IF x[1] < 0 THEN <<"-">> ELSE <<>>)
                 \o FormatNat(mag \div x[2])
                 \o (IF fraction = <<>> THEN <<>> ELSE <<".">> \o fraction)

(***************************************************************************)
(* String constants of the program text and of the modelled inputs.        *)
(***************************************************************************)
s_true == <<"t", "r", "u", "e">>
s_false == <<"f", "a", "l", "s", "e">>
s_undefined == <<"u", "n", "d", "e", "f", "i", "n", "e", "d">>
s_not == <<"n", "o", "t">>
s_and == <<"a", "n", "d">>
s_or == <<"o", "r">>
s_in == <<"i", "n">>
s_is == <<"i", "s">>
s_empty == <<"e", "m", "p", "t", "y">>
s_contains == <<"c", "o", "n", "t", "a", "i", "n", "s">>
s_matches == <<"m", "a", "t", "c", "h", "e", "s">>
s_foo == <<"f", "o", "o">>
s_bar == <<"b", "a", "r">>
s_baz == <<"b", "a", "z">>
s_qux == <<"q", "u", "x">>
s_tags == <<"t", "a", "g", "s">>
s_ver == <<"v", "e", "r">>
s_banana == <<"b", "a", "n", "a", "n", "a">>
s_a == <<"a">>
s_x == <<"x">>
s_y == <<"y">>
s_badre == <<"[", "a">>

(***************************************************************************)
(* Go values.                                                              *)
(***************************************************************************)
\* the nil interface value
Nil == [nil |-> TRUE]
\* &undefined, the pointer to the UndefinedType sentinel
Undefined == [undefined |-> TRUE]
GoBool(b) == [bool |-> b]
\* a value of Go type int, as found in a datum
GoInt(n) == [int |-> n]
GoInt64(n) == [int64 |-> n]
\* a float64, its payload as Float gives it
GoFloat64(x) == [float64 |-> x]
GoString(s) == [string |-> s]
\* map[string]interface{}: a function from key strings to values
GoMap(f) == [map |-> f]
\* []interface{}
GoSlice(q) == [slice |-> q]
EmptyMap == GoMap([key \in {} |-> Nil])

\* the dynamic type of a value: the name of its only field
K(value) == CHOOSE field \in DOMAIN value : TRUE

\* the payload of a value
V(value) == value[K(value)]

\* reflect.Indirect(reflect.ValueOf(value)).Kind(), with the integer kinds
\* kept apart because type switches and assertions tell them apart
Kind(value) ==
    CASE K(value) = "nil" -> "invalid"
      [] K(value) = "undefined" -> "struct"
      [] OTHER -> K(value)

IsIntKind(kind) == kind \in {"int", "int64"}

\* isUndefined(f): a pointer to a struct of type UndefinedType
isUndefined(f) == K(f) = "undefined"

\* the order of the characters the model's map keys are made of
CharOrder == <<"0", "1", "2", "3", "4", "5", "6", "7", "8", "9",
               "a", "b", "c", "d", "e", "f", "g", "h", "i", "j", "k", "l", "m",
               "n", "o", "p", "q", "r", "s", "t", "u", "v", "w", "x", "y", "z">>

CharRank(c) ==
    IF \E i \in 1..Len(CharOrder) : CharOrder[i] = c
    THEN CHOOSE i \in 1..Len(CharOrder) : CharOrder[i] = c
    ELSE 0

RECURSIVE StrLess(_, _)
StrLess(a, b) ==
    IF b = <<>> THEN FALSE
    ELSE IF a = <<>> THEN TRUE
    ELSE IF Head(a) = Head(b) THEN StrLess(Tail(a), Tail(b))
    ELSE CharRank(Head(a)) < CharRank(Head(b))

RECURSIVE SortedKeys(_)
SortedKeys(keys) ==
    IF keys = {} THEN <<>>
    ELSE LET least == CHOOSE a \in keys : \A b \in keys \ {a} : StrLess(a, b)
         IN  <<least>> \o SortedKeys(keys \ {least})

RECURSIVE Sprint(_)
\* fmt.Sprintf("%v", value)
Sprint(value) ==
    CASE K(value) = "nil" -> <<"<", "n", "i", "l", ">">>
      [] K(value) = "undefined" -> <<"&", "{", "}">>
      [] K(value) = "bool" -> IF V(value) THEN s_true ELSE s_false
      [] K(value) \in {"int", "int64"} -> FormatInt(V(value))
      [] K(value) = "float64" -> FormatFloat(V(value))
      [] K(value) = "string" -> V(value)
      [] K(value) = "slice" ->
            <<"[">> \o Join([i \in 1..Len(V(value)) |-> Sprint(V(value)[i])], <<" ">>)
                    \o <<"]">>
      [] K(value) = "map" ->
            LET keys == SortedKeys(DOMAIN V(value))
            IN  <<"m", "a", "p", "[">>
                \o Join([i \in 1..Len(keys) |->
                            keys[i] \o <<":">> \o Sprint(V(value)[keys[i]])], <<" ">>)
                \o <<"]">>

(***************************************************************************)
(* Coercion helpers (src/unnamed/part_002).                                *)
(***************************************************************************)
\* strconv.ParseBool
ParseBool(s) ==
    LET yes == {<<"1">>, <<"t">>, <<"T">>, <<"T", "R", "U", "E">>, s_true,
                <<"T", "r", "u", "e">>}
        no  == {<<"0">>, <<"f">>, <<"F">>, <<"F", "A", "L", "S", "E">>, s_false,
                <<"F", "a", "l", "s", "e">>}
    IN  [v |-> s \in yes, ok |-> s \in yes \cup no]

CoerceBool(value) ==
    CASE K(value) \in {"int", "int64"} -> [v |-> V(value) # 0, ok |-> TRUE]
      [] K(value) = "float64" -> [v |-> V(value)[1] # 0, ok |-> TRUE]
      [] K(value) = "string" ->
            LET b == ParseBool(V(value))
            IN  IF b.ok THEN b ELSE [v |-> Len(V(value)) > 0, ok |-> TRUE]
      [] OTHER -> ParseBool(Sprint(value))

CoerceInt64(value) == ParseIntBase0(Sprint(value))

CoerceFloat64(value) == ParseFloat(Sprint(value))

(***************************************************************************)
(* Selector resolution.                                                    *)
(***************************************************************************)
RECURSIVE PointerGet(_, _)
\* pointerstructure.Pointer{Parts: parts}.Get(value): walks the parts; a map
\* lacking the key is ErrNotFound, a slice index that is no integer is
\* ErrConvert and one outside the slice is ErrOutOfRange, and a part applied
\* to anything that is no map or slice is ErrInvalidKind.
PointerGet(parts, value) ==
    IF parts = <<>> THEN [val |-> value, err |-> "nil"]
    ELSE CASE K(value) = "map" ->
                IF Head(parts) \in DOMAIN V(value)
                THEN PointerGet(Tail(parts), V(value)[Head(parts)])
                ELSE [val |-> Nil, err |-> "ErrNotFound"]
           [] K(value) = "slice" ->
                LET idx == ParseIntBase0(Head(parts))
                IN  IF ~idx.ok THEN [val |-> Nil, err |-> "ErrConvert"]
                    ELSE IF idx.v < 0 \/ idx.v >= Len(V(value))
                    THEN [val |-> Nil, err |-> "ErrOutOfRange"]
                    ELSE PointerGet(Tail(parts), V(value)[idx.v + 1])
           [] OTHER -> [val |-> Nil, err |-> "ErrInvalidKind"]

\* evaluateNotPresent accepting a path of a single part
evaluateNotPresentAnyLength(parts, d) ==
    IF Len(parts) < 1 THEN FALSE
    ELSE K(PointerGet(SubSeq(parts, 1, Len(parts) - 1), d).val) = "map"

\* evaluateNotPresent(ptr, datum)
evaluateNotPresent(parts, d) ==
    IF Len(parts) < 2 THEN FALSE
    ELSE K(PointerGet(SubSeq(parts, 1, Len(parts) - 1), d).val) = "map"

(***************************************************************************)
(* The AST (src/grammar/ast.go).                                           *)
(***************************************************************************)
UnaryOpNot == 0

BinaryOpAnd == 0
BinaryOpOr == 1

MathOpValue == 0
MathOpPlus == 1
MathOpMinus == 2
MathOpMul == 3
MathOpDiv == 4

MatchEqual == 0
MatchNotEqual == 1
MatchIn == 2
MatchNotIn == 3
MatchIsEmpty == 4
MatchIsNotEmpty == 5
MatchMatches == 6
MatchNotMatches == 7
MatchLower == 8
MatchLowerOrEqual == 9
MatchHigher == 10
MatchHigherOrEqual == 11

SelectorTypeUnknown == 0
SelectorTypeBexpr == 1
SelectorTypeJsonPointer == 2

ValueTypeUndefined == 0
ValueTypeBool == 1
ValueTypeInt == 2
ValueTypeUint == 3
ValueTypeFloat32 == 4
ValueTypeFloat64 == 5
ValueTypeString == 6
ValueTypeReflect == 7

\* the zero Selector of a literal MatchValue
NoSelector == [Type |-> SelectorTypeUnknown, Path |-> <<>>]

Selector(type, path) == [Type |-> type, Path |-> path]

MatchValue(selector, type, raw) ==
    [n |-> "MatchValue", Selector |-> selector, Type |-> type, Raw |-> raw,
     Converted |-> Nil]

ExpressionValue(left, operator, right) ==
    [n |-> "ExpressionValue", Left |-> left, Operator |-> operator, Right |-> right]

MatchExpression(left, operator, right) ==
    [n |-> "MatchExpression", Left |-> left, Operator |-> operator, Right |-> right]

UnaryExpression(operator, expr) ==
    [n |-> "UnaryExpression", Operator |-> operator, Operand |-> expr]

BinaryExpression(left, operator, right) ==
    [n |-> "BinaryExpression", Left |-> left, Operator |-> operator, Right |-> right]

\* NotPresentDisposition returning for MatchLower what its comment says
NotPresentDispositionAsCommented(op) ==
    op \in {MatchNotEqual, MatchNotIn, MatchIsEmpty, MatchNotMatches, MatchLowerOrEqual}

\* MatchOperator.NotPresentDisposition()
NotPresentDisposition(op) ==
    CASE op = MatchEqual -> FALSE
      [] op = MatchNotEqual -> TRUE
      [] op = MatchIn -> FALSE
      [] op = MatchNotIn -> TRUE
      [] op = MatchIsEmpty -> TRUE
      [] op = MatchIsNotEmpty -> FALSE
      [] op = MatchMatches -> FALSE
      [] op = MatchNotMatches -> TRUE
      [] op = MatchLower -> TRUE
      [] op = MatchHigher -> FALSE
      [] op = MatchLowerOrEqual -> TRUE
      [] op = MatchHigherOrEqual -> FALSE
      [] OTHER -> FALSE

(***************************************************************************)
(* Evaluation results.                                                     *)
(***************************************************************************)
NoError == "nil"

\* the call returned (val, err) after visiting the AST positions of seen
Ret(val, err, seen) == [val |-> val, err |-> err, panic |-> FALSE, seen |-> seen]

\* the call did not return: a failed type assertion or a reflect panic
Panics(seen) == [val |-> Nil, err |-> NoError, panic |-> TRUE, seen |-> seen]

\* the unknown-value option left unset (opts.withUnknown == nil)
Unset == [unset |-> TRUE]

(***************************************************************************)
(* Primitive comparison functions.                                         *)
(***************************************************************************)
doEqualBool(first, second) ==
    CoerceBool(GoString(Sprint(first))).v = CoerceBool(GoString(Sprint(second))).v

doEqualInt64(first, second) ==
    CoerceInt64(GoString(Sprint(first))).v = CoerceInt64(GoString(Sprint(second))).v

doEqualFloat64(first, second) ==
    FloatEqual(CoerceFloat64(GoString(Sprint(first))).v,
               CoerceFloat64(GoString(Sprint(second))).v)

doEqualString(first, second) == Sprint(first) = Sprint(second)

\* primitiveEqualityFn(value): the name of the chosen function, "nil" for none
primitiveEqualityFn(value) ==
    CASE Kind(value) = "bool" -> "doEqualBool"
      [] IsIntKind(Kind(value)) -> "doEqualInt64"
      [] Kind(value) = "float64" -> "doEqualFloat64"
      [] Kind(value) = "string" -> "doEqualString"
      [] OTHER -> "nil"

doLowerBool(first, second) ==
    CoerceBool(GoString(Sprint(first))).v /\ ~CoerceBool(GoString(Sprint(second))).v

doLowerInt64(first, second) ==
    CoerceInt64(GoString(Sprint(first))).v < CoerceInt64(GoString(Sprint(second))).v

doLowerFloat64(first, second) ==
    FloatLess(CoerceFloat64(GoString(Sprint(first))).v,
              CoerceFloat64(GoString(Sprint(second))).v)

\* doLowerString as the order of the dictionary
doLowerStringOrdered(first, second) == StrLess(Sprint(first), Sprint(second))

doLowerString(first, second) == HasPrefix(Sprint(second), Sprint(first))

\* primitiveLowerFn(value)
primitiveLowerFn(value) ==
    CASE Kind(value) = "bool" -> "doLowerBool"
      [] IsIntKind(Kind(value)) -> "doLowerInt64"
      [] Kind(value) = "float64" -> "doLowerFloat64"
      [] Kind(value) = "string" -> "doLowerString"
      [] OTHER -> "nil"

\* the call fn(first, second) of a chosen primitive function
Apply(fn, first, second) ==
    CASE fn = "doEqualBool" -> doEqualBool(first, second)
      [] fn = "doEqualInt64" -> doEqualInt64(first, second)
      [] fn = "doEqualFloat64" -> doEqualFloat64(first, second)
      [] fn = "doEqualString" -> doEqualString(first, second)
      [] fn = "doLowerBool" -> doLowerBool(first, second)
      [] fn = "doLowerInt64" -> doLowerInt64(first, second)
      [] fn = "doLowerFloat64" -> doLowerFloat64(first, second)
      [] fn = "doLowerString" -> doLowerString(first, second)

\* a matcher's (bool, error) result; panic when it does not return
MRet(b, err) == [b |-> b, err |-> err, panic |-> FALSE]
MPanics == [b |-> FALSE, err |-> NoError, panic |-> TRUE]

\* regexp.Compile(pattern) succeeds.  The model's patterns are literal
\* texts, which compile, and texts with a bracket that is never closed,
\* which do not.
RegexpCompiles(pattern) ==
    \A i \in 1..Len(pattern) :
        pattern[i] = "[" => \E j \in (i + 1)..Len(pattern) : pattern[j] = "]"

\* re.Match(text) for a literal pattern: the pattern occurs in the text
RegexpMatch(pattern, s) == Contains(s, pattern)

doMatchMatches(leftValue, rightValue) ==
    IF Kind(leftValue) = "invalid" THEN MPanics
    ELSE IF Kind(leftValue) # "string"
    THEN MRet(FALSE, "Value is not convertible to []byte")
    ELSE IF K(rightValue) # "string" THEN MPanics
    ELSE IF ~RegexpCompiles(V(rightValue))
    THEN MRet(FALSE, "Failed to compile regular expression")
    ELSE MRet(RegexpMatch(V(rightValue), V(leftValue)), NoError)

doMatchLower(leftValue, rightValue) ==
    LET eqFn == primitiveLowerFn(leftValue)
    IN  IF eqFn = "nil"
        THEN MRet(FALSE, "unable to find suitable primitive comparison function")
        ELSE MRet(Apply(eqFn, leftValue, rightValue), NoError)

doMatchEqual(leftValue, rightValue) ==
    LET eqFn == primitiveEqualityFn(leftValue)
    IN  IF eqFn = "nil"
        THEN MRet(FALSE, "unable to find suitable primitive comparison function")
        ELSE MRet(Apply(eqFn, leftValue, rightValue), NoError)

RECURSIVE InSlice(_, _, _)
\* the loop of doMatchIn over the items of a []interface{} from index i on
InSlice(items, i, rightValue) ==
    IF i > Len(items) THEN MRet(FALSE, NoError)
    ELSE IF K(items[i]) = "nil" THEN MPanics
    ELSE LET eqFn == primitiveEqualityFn(rightValue)
         IN  IF eqFn = "nil"
             THEN MRet(FALSE, "unable to find suitable primitive comparison function")
             ELSE IF Apply(eqFn, items[i], rightValue) THEN MRet(TRUE, NoError)
             ELSE InSlice(items, i + 1, rightValue)

\* doMatchIn searching a string left value for equality, not containment
doMatchInWholeString(leftValue, rightValue) ==
    CASE K(leftValue) = "map" ->
            IF K(rightValue) # "string" THEN MPanics
            ELSE MRet(V(rightValue) \in DOMAIN V(leftValue), NoError)
      [] K(leftValue) = "slice" -> InSlice(V(leftValue), 1, rightValue)
      [] K(leftValue) = "string" ->
            IF K(rightValue) # "string" THEN MPanics
            ELSE MRet(V(leftValue) = V(rightValue), NoError)
      [] OTHER -> MRet(FALSE, "Cannot perform in/contains operations on type")

doMatchIn(leftValue, rightValue) ==
    CASE K(leftValue) = "map" ->
            IF K(rightValue) # "string" THEN MPanics
            ELSE MRet(V(rightValue) \in DOMAIN V(leftValue), NoError)
      [] K(leftValue) = "slice" -> InSlice(V(leftValue), 1, rightValue)
      [] K(leftValue) = "string" ->
            IF K(rightValue) # "string" THEN MPanics
            ELSE MRet(Contains(V(leftValue), V(rightValue)), NoError)
      [] OTHER -> MRet(FALSE, "Cannot perform in/contains operations on type")

doMatchIsEmpty(leftValue) ==
    CASE Kind(leftValue) = "map" -> MRet(DOMAIN V(leftValue) = {}, NoError)
      [] Kind(leftValue) \in {"string", "slice"} -> MRet(Len(V(leftValue)) = 0, NoError)
      [] OTHER -> MPanics

(***************************************************************************)
(* The evaluator.                                                          *)
(***************************************************************************)
\* getValue resolving every missing key to Undefined, whatever the path
getValueAbsentAtAnyLength(mv, d, unknown) ==
    CASE mv.Type = ValueTypeUndefined -> Ret(Undefined, NoError, {})
      [] mv.Type = ValueTypeBool ->
            Ret(GoBool(CoerceBool(GoString(mv.Raw)).v), NoError, {})
      [] mv.Type = ValueTypeInt ->
            LET i == CoerceInt64(GoString(mv.Raw))
            IN  Ret(GoInt64(i.v), IF i.ok THEN NoError ELSE "strconv.ParseInt", {})
      [] mv.Type = ValueTypeFloat64 ->
            LET f == CoerceFloat64(GoString(mv.Raw))
            IN  Ret(GoFloat64(f.v), IF f.ok THEN NoError ELSE "strconv.ParseFloat", {})
      [] mv.Type = ValueTypeReflect ->
            LET got == PointerGet(mv.Selector.Path, d)
            IN  IF got.err = NoError THEN Ret(got.val, NoError, {})
                ELSE IF got.err = "ErrNotFound" /\ unknown # Unset
                THEN Ret(unknown, NoError, {})
                ELSE IF got.err = "ErrNotFound"
                THEN Ret(Undefined, NoError, {})
                ELSE Ret(Undefined, "error finding value in datum", {})
      [] OTHER -> Ret(GoString(mv.Raw), NoError, {})

\* getValue(expressionValue, datum, opt...)
getValue(mv, d, unknown) ==
    CASE mv.Type = ValueTypeUndefined -> Ret(Undefined, NoError, {})
      [] mv.Type = ValueTypeBool ->
            Ret(GoBool(CoerceBool(GoString(mv.Raw)).v), NoError, {})
      [] mv.Type = ValueTypeInt ->
            LET i == CoerceInt64(GoString(mv.Raw))
            IN  Ret(GoInt64(i.v), IF i.ok THEN NoError ELSE "strconv.ParseInt", {})
      [] mv.Type = ValueTypeFloat64 ->
            LET f == CoerceFloat64(GoString(mv.Raw))
            IN  Ret(GoFloat64(f.v), IF f.ok THEN NoError ELSE "strconv.ParseFloat", {})
      [] mv.Type = ValueTypeReflect ->
            LET got == PointerGet(mv.Selector.Path, d)
            IN  IF got.err = NoError THEN Ret(got.val, NoError, {})
                ELSE IF got.err = "ErrNotFound" /\ unknown # Unset
                THEN Ret(unknown, NoError, {})
                ELSE IF got.err = "ErrNotFound"
                        /\ evaluateNotPresent(mv.Selector.Path, d)
                THEN Ret(Undefined, NoError, {})
                ELSE Ret(Undefined, "error finding value in datum", {})
      [] OTHER -> Ret(GoString(mv.Raw), NoError, {})

\* x / y of Go: the quotient truncated toward zero
GoDiv(x, y) ==
    LET ax == IF x < 0 THEN 0 - x ELSE x
        ay == IF y < 0 THEN 0 - y ELSE y
        q  == ax \div ay
    IN  IF (x < 0) = (y < 0) THEN q ELSE 0 - q

\* the switch of getExprValue on the operator and on the right value's type
MathOp(operator, lvalue, rvalue, seen) ==
    LET unknownTypes == Ret(Nil, "unknown types for math op", seen)
        int64s == IF K(lvalue) # "int64" \/ K(rvalue) # "int64" THEN FALSE ELSE TRUE
    IN  CASE operator = MathOpValue -> Ret(lvalue, NoError, seen)
          [] operator = MathOpPlus ->
                CASE K(rvalue) = "bool" ->
                        IF K(lvalue) # "bool" THEN Panics(seen)
                        ELSE Ret(GoBool(V(lvalue) /\ V(rvalue)), NoError, seen)
                  [] K(rvalue) \in {"int", "int64"} ->
                        IF ~int64s THEN Panics(seen)
                        ELSE Ret(GoInt64(V(lvalue) + V(rvalue)), NoError, seen)
                  [] K(rvalue) = "float64" ->
                        IF K(lvalue) # "float64" THEN Panics(seen)
                        ELSE Ret(GoFloat64(FloatAdd(V(lvalue), V(rvalue))), NoError, seen)
                  [] K(rvalue) = "string" ->
                        IF K(lvalue) # "string" THEN Panics(seen)
                        ELSE Ret(GoString(V(lvalue) \o V(rvalue)), NoError, seen)
                  [] OTHER -> unknownTypes
          [] operator = MathOpMinus ->
                CASE K(rvalue) \in {"int", "int64"} ->
                        IF ~int64s THEN Panics(seen)
                        ELSE Ret(GoInt64(V(lvalue) - V(rvalue)), NoError, seen)
                  [] K(rvalue) = "float64" ->
                        IF K(lvalue) # "float64" THEN Panics(seen)
                        ELSE Ret(GoFloat64(FloatSub(V(lvalue), V(rvalue))), NoError, seen)
                  [] OTHER -> unknownTypes
          [] operator = MathOpMul ->
                CASE K(rvalue) \in {"int", "int64"} ->
                        IF ~int64s THEN Panics(seen)
                        ELSE Ret(GoInt64(V(lvalue) * V(rvalue)), NoError, seen)
                  [] K(rvalue) = "float64" ->
                        IF K(lvalue) # "float64" THEN Panics(seen)
                        ELSE Ret(GoFloat64(FloatMul(V(lvalue), V(rvalue))), NoError, seen)
                  [] OTHER -> unknownTypes
          [] operator = MathOpDiv ->
                CASE K(rvalue) \in {"int", "int64"} ->
                        IF ~int64s THEN Panics(seen)
                        ELSE IF V(rvalue) = 0 THEN Panics(seen)
                        ELSE Ret(GoInt64(GoDiv(V(lvalue), V(rvalue))), NoError, seen)
                  [] K(rvalue) = "float64" ->
                        IF K(lvalue) # "float64" THEN Panics(seen)
                        ELSE Ret(GoFloat64(FloatDiv(V(lvalue), V(rvalue))), NoError, seen)
                  [] OTHER -> unknownTypes
          [] OTHER -> Ret(Nil, NoError, seen)

\* the switch with Higher computed as the negation of Lower alone
MatchOpHigherNotLower(operator, leftValue, rightValue) ==
    LET lower == doMatchLower(leftValue, rightValue)
        equal == doMatchEqual(leftValue, rightValue)
        in    == doMatchIn(leftValue, rightValue)
        empty == doMatchIsEmpty(leftValue)
        match == doMatchMatches(leftValue, rightValue)
        Negated(m) == IF m.panic THEN m
                      ELSE IF m.err = NoError THEN MRet(~m.b, NoError)
                      ELSE MRet(FALSE, m.err)
    IN  CASE operator = MatchLower -> lower
          [] operator = MatchHigher ->
                IF lower.err = NoError THEN MRet(~lower.b, NoError)
                ELSE MRet(TRUE, lower.err)
          [] operator = MatchLowerOrEqual ->
                IF equal.err = NoError /\ equal.b THEN MRet(TRUE, NoError)
                ELSE lower
          [] operator = MatchHigherOrEqual ->
                IF lower.err = NoError THEN MRet(~lower.b, NoError)
                ELSE MRet(TRUE, NoError)
          [] operator = MatchEqual -> equal
          [] operator = MatchNotEqual -> Negated(equal)
          [] operator = MatchIn -> in
          [] operator = MatchNotIn -> Negated(in)
          [] operator = MatchIsEmpty -> empty
          [] operator = MatchIsNotEmpty -> Negated(empty)
          [] operator = MatchMatches -> match
          [] operator = MatchNotMatches -> Negated(match)
          [] OTHER -> MRet(FALSE, "Invalid match operation")

\* the switch of evaluateMatchExpression on the operator
MatchOp(operator, leftValue, rightValue) ==
    LET lower == doMatchLower(leftValue, rightValue)
        equal == doMatchEqual(leftValue, rightValue)
        in    == doMatchIn(leftValue, rightValue)
        empty == doMatchIsEmpty(leftValue)
        match == doMatchMatches(leftValue, rightValue)
        Negated(m) == IF m.panic THEN m
                      ELSE IF m.err = NoError THEN MRet(~m.b, NoError)
                      ELSE MRet(FALSE, m.err)
    IN  CASE operator = MatchLower -> lower
          [] operator = MatchHigher ->
                IF lower.err = NoError /\ lower.b THEN MRet(FALSE, NoError)
                ELSE IF equal.err = NoError THEN MRet(~equal.b, NoError)
                ELSE MRet(TRUE, equal.err)
          [] operator = MatchLowerOrEqual ->
                IF equal.err = NoError /\ equal.b THEN MRet(TRUE, NoError)
                ELSE lower
          [] operator = MatchHigherOrEqual ->
                IF lower.err = NoError THEN MRet(~lower.b, NoError)
                ELSE MRet(TRUE, NoError)
          [] operator = MatchEqual -> equal
          [] operator = MatchNotEqual -> Negated(equal)
          [] operator = MatchIn -> in
          [] operator = MatchNotIn -> Negated(in)
          [] operator = MatchIsEmpty -> empty
          [] operator = MatchIsNotEmpty -> Negated(empty)
          [] operator = MatchMatches -> match
          [] operator = MatchNotMatches -> Negated(match)
          [] OTHER -> MRet(FALSE, "Invalid match operation")

RECURSIVE evaluate(_, _, _, _)
RECURSIVE getExprValue(_, _, _, _)
RECURSIVE evaluateMatchExpression(_, _, _, _)

\* getExprValue(expression, datum, opt...); pos is the AST position of the
\* expression, the positions of its operands being pos \o <<"Left">> and
\* pos \o <<"Right">>
getExprValue(expression, d, unknown, pos) ==
    IF expression = Nil THEN Ret(Nil, NoError, {})
    ELSE LET l == evaluate(expression.Left, d, unknown, pos \o <<"Left">>)
             r == IF expression.Right # Nil
                  THEN evaluate(expression.Right, d, unknown, pos \o <<"Right">>)
                  ELSE Ret(Nil, NoError, {})
         IN  IF l.panic \/ l.err # NoError THEN [l EXCEPT !.seen = @ \cup {pos}]
             ELSE IF r.panic \/ r.err # NoError
             THEN [r EXCEPT !.seen = {pos} \cup l.seen \cup r.seen]
             ELSE MathOp(expression.Operator, l.val, r.val,
                         {pos} \cup l.seen \cup r.seen)

\* evaluateMatchExpression(expression, datum, opt...)
evaluateMatchExpression(expression, d, unknown, pos) ==
    LET l == getExprValue(expression.Left, d, unknown, pos \o <<"Left">>)
        r == getExprValue(expression.Right, d, unknown, pos \o <<"Right">>)
        both == l.seen \cup r.seen
        m == MatchOp(expression.Operator, l.val, r.val)
    IN  IF l.panic THEN l
        ELSE IF l.err # NoError THEN Ret(GoBool(FALSE), l.err, l.seen)
        ELSE IF isUndefined(l.val)
        THEN Ret(GoBool(NotPresentDisposition(expression.Operator)), NoError, l.seen)
        ELSE IF r.panic THEN Panics(both)
        ELSE IF r.err # NoError THEN Ret(GoBool(FALSE), r.err, both)
        ELSE IF m.panic THEN Panics(both)
        ELSE Ret(GoBool(m.b), m.err, both)

\* evaluate(ast, datum, opt...); pos is the AST position of the node
evaluate(node, d, unknown, pos) ==
    LET invalid == Ret(GoBool(FALSE), "Invalid AST node", {pos})
        Visit(res) == [res EXCEPT !.seen = @ \cup {pos}]
    IN  CASE node.n = "UnaryExpression" ->
                IF node.Operator = UnaryOpNot
                THEN LET res == evaluate(node.Operand, d, unknown, pos \o <<"Operand">>)
                     IN  IF res.panic THEN Visit(res)
                         ELSE IF K(res.val) # "bool" THEN Visit(Panics(res.seen))
                         ELSE Visit(Ret(GoBool(~V(res.val)), res.err, res.seen))
                ELSE invalid
          [] node.n = "BinaryExpression" ->
                LET left  == evaluate(node.Left, d, unknown, pos \o <<"Left">>)
                    right == evaluate(node.Right, d, unknown, pos \o <<"Right">>)
                    both  == [right EXCEPT !.seen = @ \cup left.seen]
                IN  CASE node.Operator = BinaryOpAnd ->
                            IF left.panic \/ left.err # NoError THEN Visit(left)
                            ELSE IF K(left.val) # "bool" THEN Visit(Panics(left.seen))
                            ELSE IF ~V(left.val) THEN Visit(left)
                            ELSE Visit(both)
                      [] node.Operator = BinaryOpOr ->
                            IF left.panic \/ left.err # NoError THEN Visit(left)
                            ELSE IF K(left.val) # "bool" THEN Visit(Panics(left.seen))
                            ELSE IF V(left.val) THEN Visit(left)
                            ELSE Visit(both)
                      [] OTHER -> invalid
          [] node.n = "MatchExpression" ->
                Visit(evaluateMatchExpression(node, d, unknown, pos))
          [] node.n = "ExpressionValue" ->
                Visit(getExprValue(node, d, unknown, pos))
          [] node.n = "MatchValue" -> Visit(getValue(node, d, unknown))
          [] OTHER -> invalid

(***************************************************************************)
(* The parser (the PEG of src/unnamed/part_001, lines 12-287) over token   *)
(* texts.  A word is an identifier with its dotted segments; the keywords  *)
(* are words, as in the grammar, whose Identifier rule excludes none.      *)
(***************************************************************************)
Word(path) == [t |-> "word", path |-> path]
IntTok(raw) == [t |-> "int", raw |-> raw]
\* a Float literal: digits, a point, digits
FloatTok(raw) == [t |-> "float", raw |-> raw]
\* a double-quoted string literal with the given content
StrTok(raw) == [t |-> "string", raw |-> raw]
Sym(s) == [t |-> "sym", s |-> s]

\* a rule's result: whether it matched, its value, the index of the next
\* token, and whether an error production has recorded an error so far
POk(v, i, e) == [ok |-> TRUE, v |-> v, i |-> i, e |-> e]
PFail(e) == [ok |-> FALSE, v |-> Nil, i |-> 0, e |-> e]

IsWord(ts, i, w) == i <= Len(ts) /\ ts[i].t = "word" /\ ts[i].path = <<w>>
IsSym(ts, i, sym) == i <= Len(ts) /\ ts[i].t = "sym" /\ ts[i].s = sym
\* token i is followed by white space, that is, by another token
Blank(ts, i) == i < Len(ts)

RECURSIVE SplitSlash(_, _)
\* the segments of a text of the form ("/" segment)*, cur being the
\* segment read so far
SplitSlash(s, cur) ==
    IF s = <<>> THEN <<cur>>
    ELSE IF Head(s) = "/" THEN <<cur>> \o SplitSlash(Tail(s), <<>>)
    ELSE SplitSlash(Tail(s), cur \o <<Head(s)>>)

\* JsonPointerSegment: "/" and one or more of [\pL\pN-_.~:|]
IsPointerSegment(seg) ==
    /\ seg # <<>>
    /\ \A j \in 1..Len(seg) :
          CharRank(seg[j]) > 0 \/ seg[j] \in {"-", "_", ".", "~", ":", "|"}

\* the second alternative of Selector matches the quoted text
IsJsonPointer(raw) ==
    \/ raw = <<>>
    \/ /\ Head(raw) = "/"
       /\ LET segs == SplitSlash(Tail(raw), <<>>)
          IN  \A j \in 1..Len(segs) : IsPointerSegment(segs[j])

\* pointerstructure.Parse("/" + the joined segments).Parts
JsonPointerParts(raw) ==
    IF raw = <<>> THEN << <<>> >> ELSE SplitSlash(Tail(raw), <<>>)

\* Value
ParseValue(ts, i) ==
    IF i > Len(ts) THEN PFail(FALSE)
    ELSE LET tok == ts[i]
         IN  CASE tok.t = "word" ->
                    IF tok.path \in {<<s_true>>, <<s_false>>}
                    THEN POk(MatchValue(NoSelector, ValueTypeBool, tok.path[1]),
                             i + 1, FALSE)
                    ELSE IF tok.path = <<s_undefined>>
                    THEN POk(MatchValue(NoSelector, ValueTypeUndefined, tok.path[1]),
                             i + 1, FALSE)
                    ELSE POk(MatchValue(Selector(SelectorTypeBexpr, tok.path),
                                        ValueTypeReflect, <<>>),
                             i + 1,
                             tok.path[1] \in {s_true, s_false, s_undefined})
               [] tok.t = "float" ->
                    POk(MatchValue(NoSelector, ValueTypeFloat64, tok.raw), i + 1, FALSE)
               [] tok.t = "int" ->
                    POk(MatchValue(NoSelector, ValueTypeInt, tok.raw), i + 1, FALSE)
               [] tok.t = "string" ->
                    IF IsJsonPointer(tok.raw)
                    THEN POk(MatchValue(Selector(SelectorTypeJsonPointer,
                                                 JsonPointerParts(tok.raw)),
                                        ValueTypeReflect, <<>>), i + 1, FALSE)
                    ELSE POk(MatchValue(NoSelector, ValueTypeString, tok.raw),
                             i + 1, FALSE)
               [] OTHER -> PFail(FALSE)

\* MathOpPlus / MathOpMinus / MathOpMul / MathOpDiv at token i
ParseMathOp(ts, i) ==
    CASE IsSym(ts, i, "+") -> POk(MathOpPlus, i + 1, FALSE)
      [] IsSym(ts, i, "-") -> POk(MathOpMinus, i + 1, FALSE)
      [] IsSym(ts, i, "*") -> POk(MathOpMul, i + 1, FALSE)
      [] IsSym(ts, i, "/") -> POk(MathOpDiv, i + 1, FALSE)
      [] OTHER -> PFail(FALSE)

\* the action code of ExpressionValue on what its parts matched
ExpressionValueRule(left, op, right) ==
    IF ~left.ok THEN left
    ELSE IF op.ok /\ right.ok
    THEN POk(ExpressionValue(left.v, op.v, right.v), right.i, left.e \/ right.e)
    ELSE POk(ExpressionValue(left.v, MathOpValue, Nil), left.i,
             left.e \/ (op.ok /\ right.e))

\* ExpressionValue once its left Value has been tried
ExpressionValueAfter(ts, left) ==
    ExpressionValueRule(left, ParseMathOp(ts, left.i),
                        ParseValue(ts, ParseMathOp(ts, left.i).i))

\* ExpressionValue
ParseExpressionValue(ts, i) == ExpressionValueAfter(ts, ParseValue(ts, i))

\* the operator alternatives of MatchSelectorOpValue at token i
ParseSelectorOpValueOperator(ts, i) ==
    CASE IsSym(ts, i, "<=") -> POk(MatchLowerOrEqual, i + 1, FALSE)
      [] IsSym(ts, i, ">=") -> POk(MatchHigherOrEqual, i + 1, FALSE)
      [] IsSym(ts, i, "<") -> POk(MatchLower, i + 1, FALSE)
      [] IsSym(ts, i, ">") -> POk(MatchHigher, i + 1, FALSE)
      [] IsSym(ts, i, "==") -> POk(MatchEqual, i + 1, FALSE)
      [] IsSym(ts, i, "!=") -> POk(MatchNotEqual, i + 1, FALSE)
      [] IsWord(ts, i, s_contains) /\ Blank(ts, i) -> POk(MatchIn, i + 1, FALSE)
      [] IsWord(ts, i, s_not) /\ IsWord(ts, i + 1, s_contains) /\ Blank(ts, i + 1) ->
            POk(MatchNotIn, i + 2, FALSE)
      [] IsWord(ts, i, s_matches) /\ Blank(ts, i) -> POk(MatchMatches, i + 1, FALSE)
      [] IsWord(ts, i, s_not) /\ IsWord(ts, i + 1, s_matches) /\ Blank(ts, i + 1) ->
            POk(MatchNotMatches, i + 2, FALSE)
      [] OTHER -> PFail(FALSE)

\* the action code of MatchSelectorOpValue on what its parts matched
MatchSelectorOpValue(left, op, right) ==
    IF ~left.ok THEN left
    ELSE IF ~op.ok THEN PFail(left.e)
    ELSE IF ~right.ok THEN PFail(left.e \/ right.e)
    ELSE POk(MatchExpression(left.v, op.v, right.v), right.i, left.e \/ right.e)

\* MatchSelectorOpValue once its left ExpressionValue has been tried
MatchSelectorOpValueAfter(ts, left) ==
    MatchSelectorOpValue(left, ParseSelectorOpValueOperator(ts, left.i),
        ParseExpressionValue(ts, ParseSelectorOpValueOperator(ts, left.i).i))

\* MatchSelectorOpValue
ParseMatchSelectorOpValue(ts, i) ==
    MatchSelectorOpValueAfter(ts, ParseExpressionValue(ts, i))

\* MatchSelectorOp giving the match the operand as its right side too
MatchSelectorOpWithRight(ts, left) ==
    LET j    == left.i
        only == ExpressionValue(left.v, MathOpValue, Nil)
    IN  IF ~left.ok THEN left
        ELSE IF IsWord(ts, j, s_is) /\ IsWord(ts, j + 1, s_empty)
        THEN POk(MatchExpression(only, MatchIsEmpty, only), j + 2, left.e)
        ELSE IF IsWord(ts, j, s_is) /\ IsWord(ts, j + 1, s_not)
                /\ IsWord(ts, j + 2, s_empty)
        THEN POk(MatchExpression(only, MatchIsNotEmpty, only), j + 3, left.e)
        ELSE PFail(left.e)

\* MatchSelectorOp once its Value has been tried, and its action code
MatchSelectorOp(ts, left) ==
    LET j    == left.i
        only == ExpressionValue(left.v, MathOpValue, Nil)
    IN  IF ~left.ok THEN left
        ELSE IF IsWord(ts, j, s_is) /\ IsWord(ts, j + 1, s_empty)
        THEN POk(MatchExpression(only, MatchIsEmpty, Nil), j + 2, left.e)
        ELSE IF IsWord(ts, j, s_is) /\ IsWord(ts, j + 1, s_not)
                /\ IsWord(ts, j + 2, s_empty)
        THEN POk(MatchExpression(only, MatchIsNotEmpty, Nil), j + 3, left.e)
        ELSE PFail(left.e)

\* MatchSelectorOp
ParseMatchSelectorOp(ts, i) == MatchSelectorOp(ts, ParseValue(ts, i))

\* MatchIn / MatchNotIn at token i
ParseInOperator(ts, i) ==
    CASE IsWord(ts, i, s_in) /\ Blank(ts, i) -> POk(MatchIn, i + 1, FALSE)
      [] IsWord(ts, i, s_not) /\ IsWord(ts, i + 1, s_in) /\ Blank(ts, i + 1) ->
            POk(MatchNotIn, i + 2, FALSE)
      [] OTHER -> PFail(FALSE)

\* MatchValueOpSelector keeping the operands in the order they are written
MatchValueOpSelectorAsWritten(value, op, selector) ==
    IF ~value.ok THEN value
    ELSE IF ~op.ok THEN PFail(value.e)
    ELSE IF ~selector.ok THEN PFail(TRUE)
    ELSE POk(MatchExpression(ExpressionValue(value.v, MathOpValue, Nil), op.v,
                             ExpressionValue(selector.v, MathOpValue, Nil)),
             selector.i, value.e \/ selector.e)

\* the action code of MatchValueOpSelector on what its parts matched; its
\* second alternative records "Invalid selector"
MatchValueOpSelector(value, op, selector) ==
    IF ~value.ok THEN value
    ELSE IF ~op.ok THEN PFail(value.e)
    ELSE IF ~selector.ok THEN PFail(TRUE)
    ELSE POk(MatchExpression(ExpressionValue(selector.v, MathOpValue, Nil), op.v,
                             ExpressionValue(value.v, MathOpValue, Nil)),
             selector.i, value.e \/ selector.e)

\* MatchValueOpSelector once its first Value has been tried
MatchValueOpSelectorAfter(ts, value) ==
    MatchValueOpSelector(value, ParseInOperator(ts, value.i),
                         ParseValue(ts, ParseInOperator(ts, value.i).i))

\* MatchValueOpSelector
ParseMatchValueOpSelector(ts, i) == MatchValueOpSelectorAfter(ts, ParseValue(ts, i))

\* the ordered choice of MatchExpression among what its alternatives matched
MatchExpressionChoice(a, b, c) ==
    IF a.ok THEN a
    ELSE IF b.ok THEN [b EXCEPT !.e = @ \/ a.e]
    ELSE [c EXCEPT !.e = @ \/ a.e \/ b.e]

\* MatchExpression
ParseMatchExpression(ts, i) ==
    MatchExpressionChoice(ParseMatchSelectorOpValue(ts, i), ParseMatchSelectorOp(ts, i),
                          ParseMatchValueOpSelector(ts, i))

RECURSIVE ParseOrExpression(_, _)
RECURSIVE ParseAndExpression(_, _)
RECURSIVE ParseNotExpression(_, _)
RECURSIVE ParseParenthesizedExpression(_, _)

\* the ordered choice of ParenthesizedExpression among what its
\* alternatives matched; the last alternative records "Unmatched parentheses"
ParenthesizedExpression(ts, open, value, or, match, bare) ==
    LET alt1  == open /\ value.ok /\ IsSym(ts, value.i, ")")
        alt2  == open /\ or.ok /\ IsSym(ts, or.i, ")")
        e1    == open /\ value.e
        e2    == e1 \/ (open /\ or.e)
        e3    == e2 \/ match.e
        e4    == e3 \/ bare.e
    IN  IF alt1 THEN POk(value.v, value.i + 1, e1)
        ELSE IF alt2 THEN POk(or.v, or.i + 1, e2)
        ELSE IF match.ok THEN [match EXCEPT !.e = e3]
        ELSE IF bare.ok THEN [bare EXCEPT !.e = e4]
        ELSE PFail(e4 \/ (open /\ or.ok))

\* ParenthesizedExpression
ParseParenthesizedExpression(ts, i) ==
    ParenthesizedExpression(ts, IsSym(ts, i, "("), ParseExpressionValue(ts, i + 1),
                            ParseOrExpression(ts, i + 1), ParseMatchExpression(ts, i),
                            ParseExpressionValue(ts, i))

\* NotExpression without the collapse of a doubled not
NotExpressionNoCollapse(tried, inner, paren) ==
    IF tried /\ inner.ok
    THEN POk(UnaryExpression(UnaryOpNot, inner.v), inner.i, inner.e)
    ELSE [paren EXCEPT !.e = @ \/ (tried /\ inner.e)]

\* the action code of NotExpression, with the collapse of a doubled not
NotExpression(tried, inner, paren) ==
    IF tried /\ inner.ok
    THEN IF inner.v.n = "UnaryExpression" /\ inner.v.Operator = UnaryOpNot
         THEN POk(inner.v.Operand, inner.i, inner.e)
         ELSE POk(UnaryExpression(UnaryOpNot, inner.v), inner.i, inner.e)
    ELSE [paren EXCEPT !.e = @ \/ (tried /\ inner.e)]

\* NotExpression
ParseNotExpression(ts, i) ==
    NotExpression(IsWord(ts, i, s_not) /\ Blank(ts, i), ParseNotExpression(ts, i + 1),
                  ParseParenthesizedExpression(ts, i))

\* the action code of AndExpression and of OrExpression on what their parts
\* matched
BinaryRule(operator, left, tried, right) ==
    IF tried /\ right.ok
    THEN POk(BinaryExpression(left.v, operator, right.v), right.i, left.e \/ right.e)
    ELSE [left EXCEPT !.e = @ \/ (tried /\ right.e)]

\* AndExpression once its left NotExpression has been tried
AndExpressionAfter(ts, left) ==
    BinaryRule(BinaryOpAnd, left,
               left.ok /\ IsWord(ts, left.i, s_and) /\ Blank(ts, left.i),
               ParseAndExpression(ts, left.i + 1))

\* AndExpression
ParseAndExpression(ts, i) == AndExpressionAfter(ts, ParseNotExpression(ts, i))

\* OrExpression once its left AndExpression has been tried
OrExpressionAfter(ts, left) ==
    BinaryRule(BinaryOpOr, left,
               left.ok /\ IsWord(ts, left.i, s_or) /\ Blank(ts, left.i),
               ParseOrExpression(ts, left.i + 1))

\* OrExpression
ParseOrExpression(ts, i) == OrExpressionAfter(ts, ParseAndExpression(ts, i))

\* the ordered choice of Input, and the parser's return: the AST, or an
\* error when no alternative matched the whole text or an error production
\* has recorded an error
Input(ts, inner, whole) ==
    LET alt1  == IsSym(ts, 1, "(") /\ inner.ok /\ IsSym(ts, inner.i, ")")
                    /\ inner.i = Len(ts)
        alt2  == whole.ok /\ whole.i = Len(ts) + 1
        e     == (IsSym(ts, 1, "(") /\ inner.e) \/ (~alt1 /\ whole.e)
    IN  IF alt1 /\ ~e THEN [ok |-> TRUE, ast |-> inner.v]
        ELSE IF ~alt1 /\ alt2 /\ ~e THEN [ok |-> TRUE, ast |-> whole.v]
        ELSE [ok |-> FALSE, ast |-> Nil]

\* Input
Parse(ts) == Input(ts, ParseOrExpression(ts, 2), ParseOrExpression(ts, 1))

(***************************************************************************)
(* The inputs.                                                             *)
(***************************************************************************)
t_not == Word(<<s_not>>)
t_and == Word(<<s_and>>)
t_or == Word(<<s_or>>)
t_in == Word(<<s_in>>)
t_is == Word(<<s_is>>)
t_empty == Word(<<s_empty>>)
t_contains == Word(<<s_contains>>)
t_matches == Word(<<s_matches>>)
t_foo == Word(<<s_foo>>)
t_foo_bar == Word(<<s_foo, s_bar>>)
t_foo_bar_baz == Word(<<s_foo, s_bar, s_baz>>)
t_qux == Word(<<s_qux>>)
t_ver == Word(<<s_ver>>)
t_tags == Word(<<s_tags>>)

\* the surface tokens of a match operator between its operands
OperatorTokens(op) ==
    CASE op = MatchEqual -> <<Sym("==")>>
      [] op = MatchNotEqual -> <<Sym("!=")>>
      [] op = MatchIn -> <<t_contains>>
      [] op = MatchNotIn -> <<t_not, t_contains>>
      [] op = MatchIsEmpty -> <<t_is, t_empty>>
      [] op = MatchIsNotEmpty -> <<t_is, t_not, t_empty>>
      [] op = MatchMatches -> <<t_matches>>
      [] op = MatchNotMatches -> <<t_not, t_matches>>
      [] op = MatchLower -> <<Sym("<")>>
      [] op = MatchLowerOrEqual -> <<Sym("<=")>>
      [] op = MatchHigher -> <<Sym(">")>>
      [] op = MatchHigherOrEqual -> <<Sym(">=")>>

MatchOperators == MatchEqual..MatchHigherOrEqual

\* the text `left op right`, `left is empty`, and for In and NotIn also the
\* form `right in left` that writes the selector last
MatchTexts(left, op, right) ==
    IF op \in {MatchIsEmpty, MatchIsNotEmpty} THEN {<<left>> \o OperatorTokens(op)}
    ELSE {<<left>> \o OperatorTokens(op) \o <<right>>}
         \cup (IF op = MatchIn THEN {<<right, t_in, left>>}
               ELSE IF op = MatchNotIn THEN {<<right, t_not, t_in, left>>}
               ELSE {})

LeftOperands == {t_foo_bar, t_foo_bar_baz, t_ver, t_tags, t_qux}

RightOperands ==
    {StrTok(s_baz), StrTok(s_a), StrTok(s_badre), t_qux, t_foo_bar}
        \cup {IntTok(FormatInt(n)) : n \in 0..MaxLit}

SingleMatches ==
    UNION {MatchTexts(l, op, r) : <<l, op, r>> \in
              LeftOperands \X MatchOperators \X RightOperands}

\* operands of the boolean compositions: matches that come out true, false,
\* absent or failed, and bare values
Operands ==
    { <<t_foo_bar, Sym("=="), StrTok(s_baz)>>,
      <<t_ver, Sym(">="), IntTok(<<"3">>)>>,
      <<StrTok(s_a), t_in, t_tags>>,
      <<t_qux, Sym("=="), IntTok(<<"1">>)>>,
      <<t_foo_bar>>,
      <<t_qux>>,
      <<Word(<<s_true>>)>> }

Compositions ==
    {<<t_not>> \o x : x \in Operands}
        \cup {x \o <<t_and>> \o y : x \in Operands, y \in Operands}
        \cup {x \o <<t_or>> \o y : x \in Operands, y \in Operands}

BareValues ==
    { <<t_ver, Sym("+"), IntTok(<<"1">>)>>,
      <<Sym("("), t_ver, Sym("*"), IntTok(<<"2">>), Sym(")")>>,
      <<IntTok(<<"3">>)>>, <<StrTok(s_baz)>>, <<Word(<<s_undefined>>)>>,
      <<t_foo_bar_baz>>, <<t_tags>> }

Predicates == SingleMatches \cup Operands \cup Compositions \cup BareValues

Datums ==
    { GoMap(s_foo :> GoMap(s_bar :> GoString(s_baz)) @@ s_ver :> GoInt(5)
                @@ s_tags :> GoSlice(<<GoString(s_x), GoString(s_a), GoString(s_y)>>)),
      GoMap(s_foo :> GoMap(s_bar :> GoString(s_qux)) @@ s_ver :> GoInt(2)
                @@ s_tags :> GoString(s_banana)),
      GoMap(s_foo :> EmptyMap @@ s_ver :> GoInt(5)),
      GoMap(s_foo :> GoString(s_baz) @@ s_tags :> EmptyMap),
      GoMap(s_foo :> GoSlice(<<GoString(s_baz)>>) @@ s_ver :> GoString(s_a)),
      GoMap(s_foo :> GoMap(s_bar :> EmptyMap)),
      GoMap(s_tags :> GoSlice(<<GoString(s_x), GoString(s_a), GoString(s_y)>>)),
      GoMap(s_tags :> GoString(s_banana)),
      GoMap(s_ver :> GoInt(5)),
      GoMap(s_ver :> GoInt(2)),
      EmptyMap }

\* the unknown-value option: unset, or set to a value
UnknownValues == {Unset, GoString(s_baz), GoBool(TRUE)}

NoResult == [val |-> Nil, err |-> NoError, panic |-> FALSE, seen |-> {}]

(***************************************************************************)
(* Parsing and evaluating a predicate.                                     *)
(***************************************************************************)
Init ==
    /\ pc = "input"
    /\ text \in Predicates
    /\ ast = Nil
    /\ datum = Nil
    /\ withUnknown = Unset
    /\ result = NoResult
    /\ out = <<>>
    /\ indent = <<>>
    /\ level = 0
    /\ nots = 0
    /\ operand = Nil

\* the parser is run on the text
ParseText ==
    /\ pc = "input"
    /\ LET parsed == Parse(text)
       IN  /\ pc' = IF parsed.ok THEN "parsed" ELSE "rejected"
           /\ ast' = parsed.ast
    /\ UNCHANGED <<text, datum, withUnknown, result, out, indent, level, nots, operand>>

\* the root call evaluate(ast, datum, opt...)
Evaluate(d, unknown) ==
    /\ pc = "parsed"
    /\ pc' = "evaluated"
    /\ datum' = d
    /\ withUnknown' = unknown
    /\ result' = evaluate(ast, d, unknown, <<>>)
    /\ UNCHANGED <<text, ast, out, indent, level, nots, operand>>

Next ==
    \/ ParseText
    \/ \E d \in Datums, unknown \in UnknownValues : Evaluate(d, unknown)

Spec == Init /\ [][Next]_vars

(***************************************************************************)
(* Properties of evaluation.                                               *)
(***************************************************************************)
\* the AST is `selector op value` with a plain selector on its left
IsSelectorMatch(a) ==
    /\ a.n = "MatchExpression"
    /\ a.Left.Operator = MathOpValue
    /\ a.Left.Left.Type = ValueTypeReflect

\* the path has two parts or more, all but the last resolve to a map, and
\* that map lacks the last part
LeafMissingUnderMap(path, d) ==
    /\ Len(path) >= 2
    /\ LET parent == PointerGet(SubSeq(path, 1, Len(path) - 1), d)
       IN  /\ parent.err = NoError
           /\ K(parent.val) = "map"
           /\ path[Len(path)] \notin DOMAIN V(parent.val)

\* the absence values of the operator table
AbsenceValue(op) ==
    op \in {MatchNotEqual, MatchNotIn, MatchIsEmpty, MatchNotMatches, MatchLower,
            MatchLowerOrEqual}

\* the call returned the boolean b and no error
Returned(res, b) == ~res.panic /\ res.err = NoError /\ res.val = GoBool(b)

\* no position at or below pos was visited
NotVisited(res, pos) ==
    \A q \in res.seen : Len(q) < Len(pos) \/ SubSeq(q, 1, Len(pos)) # pos

AbsentLeftCase ==
    /\ pc = "evaluated"
    /\ IsSelectorMatch(ast)
    /\ LeafMissingUnderMap(ast.Left.Left.Selector.Path, datum)

CompositionCase == pc = "evaluated" /\ ast.n = "BinaryExpression"

\* C2: in `X and Y`, when X is false or fails, Y is not evaluated and what X
\* returned is returned; in `X or Y`, the same when X is true or fails;
\* otherwise the composition returns exactly what evaluating Y returns.
C2_ShortCircuit ==
    CompositionCase =>
        LET x == evaluate(ast.Left, datum, withUnknown, <<"Left">>)
            y == evaluate(ast.Right, datum, withUnknown, <<"Right">>)
            stops == \/ (~x.panic /\ x.err # NoError)
                     \/ (~x.panic /\ x.val = GoBool(ast.Operator = BinaryOpOr))
        IN  IF stops
            THEN /\ ~result.panic
                 /\ result.val = x.val
                 /\ result.err = x.err
                 /\ NotVisited(result, <<"Right">>)
            ELSE /\ result.panic = y.panic
                 /\ result.val = y.val
                 /\ result.err = y.err

NegationCase == pc = "evaluated" /\ ast.n = "UnaryExpression"

\* C3: when X evaluates to the boolean b, `not X` evaluates to the negation
\* of b; when X returns an error, `not X` returns that error, whatever value
\* comes with it.
C3_Negation ==
    NegationCase =>
        LET x == evaluate(ast.Operand, datum, withUnknown, <<"Operand">>)
        IN  /\ (~x.panic /\ x.err = NoError /\ K(x.val) = "bool")
                  => Returned(result, ~V(x.val))
            /\ (~x.panic /\ x.err # NoError)
                  => (~result.panic /\ result.err = x.err)

\* the predicate is a bare selector, so that the root call returns what
\* resolving the selector returns
IsBareSelector(a) ==
    /\ a.n = "ExpressionValue"
    /\ a.Operator = MathOpValue
    /\ a.Left.Type = ValueTypeReflect

MissingPathCase ==
    /\ pc = "evaluated"
    /\ IsBareSelector(ast)
    /\ PointerGet(ast.Left.Selector.Path, datum).err # NoError

\* the immediate parent of the path's leaf resolves to a map
ParentIsMap(path, d) ==
    /\ Len(path) >= 2
    /\ K(PointerGet(SubSeq(path, 1, Len(path) - 1), d).val) = "map"

\* C4, as stated: a path that is not found resolves (1) to the unknown-value
\* option's value, without error, whenever the option is set; (2) else to
\* the Undefined sentinel, without error, when the path has two parts or
\* more and the leaf's parent is a map; (3) else to an error.
C4_ResolutionOrder ==
    MissingPathCase =>
        /\ ~result.panic
        /\ IF withUnknown # Unset
           THEN result.val = withUnknown /\ result.err = NoError
           ELSE IF ParentIsMap(ast.Left.Selector.Path, datum)
           THEN result.val = Undefined /\ result.err = NoError
           ELSE result.err # NoError

\* the resolver failed on a key that a map lacks
KeyNotFound(path, d) == PointerGet(path, d).err = "ErrNotFound"

\* C4, amended: (1) holds when the resolver's failure is a key missing from
\* a map, at any depth and also for a path of one part; a failure of another
\* kind (a part applied to a scalar, a slice index that is out of range or
\* not a number) is an error whether the option is set or not.
C4_ResolutionOrderOnMissingKey ==
    MissingPathCase =>
        /\ ~result.panic
        /\ IF KeyNotFound(ast.Left.Selector.Path, datum) /\ withUnknown # Unset
           THEN result.val = withUnknown /\ result.err = NoError
           ELSE IF KeyNotFound(ast.Left.Selector.Path, datum)
                   /\ ParentIsMap(ast.Left.Selector.Path, datum)
           THEN result.val = Undefined /\ result.err = NoError
           ELSE result.err # NoError

\* a path of one part that the datum lacks, with the option set
C4_Witness ==
    /\ MissingPathCase
    /\ Len(ast.Left.Selector.Path) = 1
    /\ withUnknown = GoString(s_baz)
    /\ result.val = GoString(s_baz)

VerAtLeast3 == <<t_ver, Sym(">="), IntTok(<<"3">>)>>

VerCase == pc = "evaluated" /\ text = VerAtLeast3 /\ withUnknown = Unset

\* C5, as stated: `ver >= 3` is true against {ver: 5}, false against
\* {ver: 2}, and false, without error, against {}.
C5_VerScenario ==
    VerCase =>
        /\ datum = GoMap(s_ver :> GoInt(5)) => Returned(result, TRUE)
        /\ datum = GoMap(s_ver :> GoInt(2)) => Returned(result, FALSE)
        /\ datum = EmptyMap => Returned(result, FALSE)

\* C5, amended: against {} the evaluation returns an error (the value false
\* comes with it).
C5_VerScenarioErrorOnEmpty ==
    VerCase =>
        /\ datum = GoMap(s_ver :> GoInt(5)) => Returned(result, TRUE)
        /\ datum = GoMap(s_ver :> GoInt(2)) => Returned(result, FALSE)
        /\ datum = EmptyMap =>
              /\ ~result.panic
              /\ result.err = "error finding value in datum"
              /\ result.val = GoBool(FALSE)

C5_Witness == VerCase /\ datum = EmptyMap /\ result.err # NoError

AInTags == <<StrTok(s_a), t_in, t_tags>>

TagsCase == pc = "evaluated" /\ text = AInTags /\ withUnknown = Unset

TagsSequence == GoMap(s_tags :> GoSlice(<<GoString(s_x), GoString(s_a), GoString(s_y)>>))

TagsBanana == GoMap(s_tags :> GoString(s_banana))

\* C6, as stated: `"a" in tags` is true against {tags: ["x","a","y"]} and
\* false against {tags: "banana"}.
C6_InScenario ==
    TagsCase =>
        /\ datum = TagsSequence => Returned(result, TRUE)
        /\ datum = TagsBanana => Returned(result, FALSE)

\* C6, amended: against {tags: "banana"} it is true, "a" being a substring
\* of "banana".
C6_InScenarioSubstring ==
    TagsCase =>
        /\ datum = TagsSequence => Returned(result, TRUE)
        /\ datum = TagsBanana => Returned(result, TRUE)

C6_Witness == TagsCase /\ datum = TagsBanana /\ Returned(result, TRUE)

\* C10: the root evaluation call of a parsed predicate returns an error or
\* a boolean, never another value without an error.
C10_RootIsBoolean ==
    (pc = "evaluated" /\ ~result.panic) =>
        (result.err # NoError \/ K(result.val) = "bool")

(***************************************************************************)
(* Writing a predicate token by token, parsing it, and parsing it again    *)
(* with a `not` in front or with parentheses around.                       *)
(***************************************************************************)
TokenAlphabet ==
    {t_not, t_in, t_contains, t_is, t_empty, t_and, t_or, Sym("("), Sym(")"),
     Sym("=="), t_foo, StrTok(s_a)}

InitParse ==
    /\ pc = "input"
    /\ text = <<>>
    /\ ast = Nil
    /\ datum = Nil
    /\ withUnknown = Unset
    /\ result = NoResult
    /\ out = <<>>
    /\ indent = <<>>
    /\ level = 0
    /\ nots = 0
    /\ operand = Nil

TypeToken(tok) ==
    /\ pc = "input"
    /\ Len(text) < MaxTokens
    /\ text' = Append(text, tok)
    /\ UNCHANGED <<pc, ast, datum, withUnknown, result, out, indent, level, nots, operand>>

\* the text is a ParenthesizedExpression from its first to its last token
IsOperandText(ts) ==
    LET whole == ParseParenthesizedExpression(ts, 1)
    IN  whole.ok /\ whole.i = Len(ts) + 1

\* a `not` is written in front of a parsed text, and the text parsed again;
\* the first `not` is put in front of an operand that is no negation
PrependNot ==
    /\ pc = "parsed"
    /\ nots < MaxNots
    /\ nots = 0 => (IsOperandText(text) /\ ast.n # "UnaryExpression")
    /\ text' = <<t_not>> \o text
    /\ nots' = nots + 1
    /\ operand' = IF nots = 0 THEN ast ELSE operand
    /\ LET parsed == Parse(text')
       IN  /\ pc' = IF parsed.ok THEN "parsed" ELSE "rejected"
           /\ ast' = parsed.ast
    /\ UNCHANGED <<datum, withUnknown, result, out, indent, level>>

\* parentheses are written around a text that starts with a `not` of the
\* chain, and the text parsed again
WrapParentheses ==
    /\ pc = "parsed"
    /\ nots > 0
    /\ Head(text) = t_not
    /\ text' = <<Sym("(")>> \o text \o <<Sym(")")>>
    /\ LET parsed == Parse(text')
       IN  /\ pc' = IF parsed.ok THEN "parsed" ELSE "rejected"
           /\ ast' = parsed.ast
    /\ UNCHANGED <<datum, withUnknown, result, out, indent, level, nots, operand>>

NextParse ==
    \/ \E tok \in TokenAlphabet : TypeToken(tok)
    \/ ParseText
    \/ PrependNot
    \/ WrapParentheses

SpecParse == InitParse /\ [][NextParse]_vars

(***************************************************************************)
(* Properties of the parser.                                               *)
(***************************************************************************)
\* operands of the aliased operators: a selector and a string literal
AliasOperands == {t_foo, StrTok(s_a)}

\* the text is `a contains b` or `a not contains b`
IsContainsText(ts) ==
    /\ Len(ts) \in {3, 4}
    /\ ts[1] \in AliasOperands
    /\ ts[Len(ts)] \in AliasOperands
    /\ SubSeq(ts, 2, Len(ts) - 1) \in {<<t_contains>>, <<t_not, t_contains>>}

\* the text with `in` written for `contains`
WithIn(ts) == [j \in 1..Len(ts) |-> IF ts[j] = t_contains THEN t_in ELSE ts[j]]

\* the text with its first and last token exchanged
Swapped(ts) ==
    [j \in 1..Len(ts) |-> IF j = 1 THEN ts[Len(ts)]
                          ELSE IF j = Len(ts) THEN ts[1] ELSE ts[j]]

ContainsCase == pc \in {"parsed", "rejected"} /\ nots = 0 /\ IsContainsText(text)

\* what the parser returned for the text is what it returns for other
SameParse(other) ==
    /\ (pc = "parsed") = Parse(other).ok
    /\ ast = Parse(other).ast

\* C7, as stated: `a contains b` and `a in b` (and `a not contains b` and
\* `a not in b`) parse to the same AST, with the same operator and the same
\* left and right operands.
C7_AliasSameOrder == ContainsCase => SameParse(WithIn(text))

\* C7, amended: `a contains b` parses to the AST of `b in a`, and `a not
\* contains b` to the AST of `b not in a`: the operator is the same and the
\* operands are exchanged, the container being the left operand of the AST.
C7_AliasExchanged == ContainsCase => SameParse(Swapped(WithIn(text)))

\* `foo contains "a"` has been parsed, into In with the selector on the left
C7_Witness ==
    /\ ContainsCase
    /\ pc = "parsed"
    /\ text[1] # text[Len(text)]
    /\ ast.Operator = MatchIn
    /\ ast.Left.Left.Type = ValueTypeReflect

RECURSIVE NoDoubleNot(_)
\* no Not node of the AST has a Not node as its operand
NoDoubleNot(a) ==
    CASE a.n = "UnaryExpression" ->
            a.Operand.n # "UnaryExpression" /\ NoDoubleNot(a.Operand)
      [] a.n = "BinaryExpression" -> NoDoubleNot(a.Left) /\ NoDoubleNot(a.Right)
      [] OTHER -> TRUE

\* C8: no parsed AST has a Not node directly under a Not node, and n `not`
\* in front of an operand X, with or without parentheses between them,
\* parse to X when n is even and to Not(X) when n is odd.
C8_NotChain ==
    /\ pc = "parsed" => NoDoubleNot(ast)
    /\ nots > 0 =>
          /\ pc = "parsed"
          /\ ast = IF nots % 2 = 1 THEN UnaryExpression(UnaryOpNot, operand)
                   ELSE operand

\* `not ( not X )`-like texts: two `not` with parentheses between them
C8_Witness ==
    /\ pc = "parsed"
    /\ nots = 2
    /\ Len(text) >= 5
    /\ text[2] = Sym("(")
    /\ text[3] = t_not
    /\ ast = operand

RECURSIVE MatchExpressions(_)
\* the match expressions of an AST
MatchExpressions(a) ==
    CASE a.n = "UnaryExpression" -> MatchExpressions(a.Operand)
      [] a.n = "BinaryExpression" -> MatchExpressions(a.Left) \cup MatchExpressions(a.Right)
      [] a.n = "MatchExpression" -> {a}
      [] OTHER -> {}

\* the left of the match is an ExpressionValue whose left is a MatchValue
LeftIsValue(m) ==
    /\ m.Left # Nil
    /\ m.Left.n = "ExpressionValue"
    /\ m.Left.Left.n = "MatchValue"

\* the MatchValue bears a selector: type Reflect and a path that is not empty
BearsSelector(mv) == mv.Type = ValueTypeReflect /\ mv.Selector.Path # <<>>

\* the right of the match is absent exactly for IsEmpty and IsNotEmpty
RightAbsentForEmpty(m) ==
    (m.Right = Nil) <=> (m.Operator \in {MatchIsEmpty, MatchIsNotEmpty})

\* the text is one match of three tokens, `x op y`
IsSingleMatch == pc = "parsed" /\ nots = 0 /\ Len(text) = 3 /\ ast.n = "MatchExpression"

\* the operand of a three-token match that becomes its left: the one
\* written last for `x in y`, the one written first otherwise; a word is a
\* selector, the keywords too, and the string literal of the alphabet is none
LeftOperandToken == IF text[2] = t_in THEN text[3] ELSE text[1]

\* C12, as stated: every match expression of a parsed AST has as left an
\* ExpressionValue whose left is a MatchValue bearing a selector (type
\* Reflect, path not empty), and has no right exactly when its operator is
\* IsEmpty or IsNotEmpty.
C12_LeftIsSelector ==
    pc = "parsed" =>
        \A m \in MatchExpressions(ast) :
            LeftIsValue(m) /\ BearsSelector(m.Left.Left) /\ RightAbsentForEmpty(m)

\* C12, amended: every match expression of a parsed AST has as left an
\* ExpressionValue whose left is a MatchValue, and has no right exactly when
\* its operator is IsEmpty or IsNotEmpty; the left MatchValue is the value of
\* the operand written first, or of the operand written last in `x in y`,
\* and it bears a selector exactly when that operand is a selector and not a
\* literal.
C12_LeftIsLeftOperand ==
    /\ pc = "parsed" =>
          \A m \in MatchExpressions(ast) : LeftIsValue(m) /\ RightAbsentForEmpty(m)
    /\ IsSingleMatch =>
          /\ ast.Left.Left = ParseValue(<<LeftOperandToken>>, 1).v
          /\ BearsSelector(ast.Left.Left) <=> LeftOperandToken.t = "word"

\* `"a" in foo` has been parsed: the selector written last is the left
C12_Witness ==
    /\ IsSingleMatch
    /\ text = <<StrTok(s_a), t_in, t_foo>>
    /\ BearsSelector(ast.Left.Left)
    /\ ast.Right.Left.Type = ValueTypeString

(***************************************************************************)
(* The dump of an AST: ExpressionDump and the formatting of fmt.Fprintf    *)
(* for the operands it prints.  The strings of the dumped ASTs hold only   *)
(* letters, so that %q adds the double quotes and escapes nothing.         *)
(***************************************************************************)
s_unknown == <<"U", "N", "K", "N", "O", "W", "N">>
s_open == <<" ", "{", "\n">>
s_close == <<"}", "\n">>
s_newline == <<"\n">>
s_space == <<" ">>
s_selector_label == <<"S", "e", "l", "e", "c", "t", "o", "r", ":", " ">>
s_value_label == <<"V", "a", "l", "u", "e", ":", " ">>
s_nil_angle == <<"<", "n", "i", "l", ">">>

\* UnaryOperator.String()
UnaryOperatorString(op) == IF op = UnaryOpNot THEN <<"N", "o", "t">> ELSE s_unknown

\* BinaryOperator.String()
BinaryOperatorString(op) ==
    CASE op = BinaryOpAnd -> <<"A", "n", "d">>
      [] op = BinaryOpOr -> <<"O", "r">>
      [] OTHER -> s_unknown

\* MathOperator.String()
MathOperatorString(op) ==
    CASE op = MathOpValue -> <<"=">>
      [] op = MathOpPlus -> <<"+">>
      [] op = MathOpMinus -> <<"-">>
      [] op = MathOpMul -> <<"*">>
      [] op = MathOpDiv -> <<"/">>
      [] OTHER -> s_unknown

\* MatchOperator.String()
MatchOperatorString(op) ==
    CASE op = MatchEqual -> <<"E", "q", "u", "a", "l">>
      [] op = MatchNotEqual -> <<"N", "o", "t", " ", "E", "q", "u", "a", "l">>
      [] op = MatchIn -> <<"I", "n">>
      [] op = MatchNotIn -> <<"N", "o", "t", " ", "I", "n">>
      [] op = MatchIsEmpty -> <<"I", "s", " ", "E", "m", "p", "t", "y">>
      [] op = MatchIsNotEmpty -> <<"I", "s", " ", "N", "o", "t", " ", "E", "m", "p", "t", "y">>
      [] op = MatchMatches -> <<"M", "a", "t", "c", "h", "e", "s">>
      [] op = MatchNotMatches -> <<"N", "o", "t", " ", "M", "a", "t", "c", "h", "e", "s">>
      [] op = MatchLower -> <<"L", "o", "w", "e", "r">>
      [] op = MatchHigher -> <<"H", "i", "g", "h", "e", "r">>
      [] op = MatchLowerOrEqual -> <<"L", "o", "w", "e", "r", " ", "o", "r", " ", "E", "q", "u", "a", "l">>
      [] op = MatchHigherOrEqual -> <<"H", "i", "g", "h", "e", "r", " ", "o", "r", " ", "E", "q", "u", "a", "l">>
      [] OTHER -> s_unknown

\* Selector.String()
SelectorString(sel) ==
    IF Len(sel.Path) = 0 THEN <<>>
    ELSE CASE sel.Type = SelectorTypeBexpr -> Join(sel.Path, <<".">>)
           [] sel.Type = SelectorTypeJsonPointer -> Join(sel.Path, <<"/">>)
           [] OTHER -> <<>>

\* strconv.Quote of a string of letters
Quote(s) == <<"\"">> \o s \o <<"\"">>

\* strconv.QuoteRune of the runes 0..7
QuoteRune(r) ==
    IF r = 7 THEN <<"'", "\\", "a", "'">>
    ELSE <<"'", "\\", "x", "0">> \o FormatNat(r) \o <<"'">>

\* a string under the verbs v, s and q
FormatString(verb, s) == IF verb = "q" THEN Quote(s) ELSE s

\* a ValueType, an unsigned integer without a String method, under the verbs
FormatValueType(verb, type) ==
    CASE verb = "v" -> FormatNat(type)
      [] verb = "q" -> QuoteRune(type)
      [] verb = "s" -> <<"%", "!", "s", "(", "g", "r", "a", "m", "m", "a", "r", ".", "V", "a", "l", "u", "e", "T", "y", "p", "e", "=">> \o FormatNat(type) \o <<")">>

\* an operand of Fprintf under a verb: nil, a string, a Selector (printed by
\* its String method) or a *MatchValue (printed as &{...}, field by field, a
\* nil interface field as <nil> under every verb)
Format(verb, arg) ==
    CASE "nil" \in DOMAIN arg ->
            IF verb = "v" THEN s_nil_angle
            ELSE <<"%", "!", verb, "(">> \o s_nil_angle \o <<")">>
      [] "string" \in DOMAIN arg -> FormatString(verb, arg.string)
      [] "Path" \in DOMAIN arg -> FormatString(verb, SelectorString(arg))
      [] "Raw" \in DOMAIN arg ->
            <<"&", "{">> \o FormatString(verb, SelectorString(arg.Selector))
                \o s_space \o FormatValueType(verb, arg.Type)
                \o s_space \o FormatString(verb, arg.Raw)
                \o s_space \o s_nil_angle \o <<"}">>

\* the match operators whose dump has a Value line
ValueLineOperators ==
    {MatchEqual, MatchNotEqual, MatchIn, MatchNotIn, MatchLower, MatchHigher,
     MatchLowerOrEqual, MatchHigherOrEqual}

RECURSIVE ExpressionDump(_, _, _)
\* expr.ExpressionDump(w, indent, level): the text written to w
ExpressionDump(expr, unit, lvl) ==
    LET localIndent == Repeat(unit, lvl)
    IN  CASE expr.n = "UnaryExpression" ->
                localIndent \o UnaryOperatorString(expr.Operator) \o s_open
                    \o ExpressionDump(expr.Operand, unit, lvl + 1)
                    \o localIndent \o s_close
          [] expr.n = "BinaryExpression" ->
                localIndent \o BinaryOperatorString(expr.Operator) \o s_open
                    \o ExpressionDump(expr.Left, unit, lvl + 1)
                    \o ExpressionDump(expr.Right, unit, lvl + 1)
                    \o localIndent \o s_close
          [] expr.n = "ExpressionValue" ->
                localIndent \o Format("s", expr.Left) \o s_space
                    \o Format("v", GoString(MathOperatorString(expr.Operator)))
                    \o s_space \o Format("v", expr.Right) \o s_newline
          [] expr.n = "MatchExpression" ->
                IF expr.Operator \in ValueLineOperators
                THEN localIndent \o Format("s", GoString(MatchOperatorString(expr.Operator)))
                        \o s_open
                        \o Repeat(unit, lvl + 1) \o s_selector_label
                        \o Format("v", expr.Left.Left) \o s_newline
                        \o Repeat(unit, lvl + 1) \o s_value_label
                        \o Format("q", expr.Right.Right) \o s_newline
                        \o localIndent \o s_close
                ELSE localIndent \o Format("s", GoString(MatchOperatorString(expr.Operator)))
                        \o s_open
                        \o Repeat(unit, lvl + 1) \o s_selector_label
                        \o Format("v", expr.Left.Left) \o s_newline
                        \o localIndent \o s_close

(***************************************************************************)
(* Dumping an AST: one the parser returned, or one built by hand from the  *)
(* AST types, as the tests of the dump build theirs.                       *)
(***************************************************************************)
\* an operator value outside every operator enumeration
OutOfRangeOperator == 42

IndentUnits == {<<>>, <<" ">>, <<" ", " ", " ">>}

\* the selector foo.bar
FooBar == Selector(SelectorTypeBexpr, <<s_foo, s_bar>>)

\* left sides carrying the selector foo.bar: as the parser builds them, with
\* a *MatchValue in Left, and with the Selector itself in Left
LeftSides ==
    { ExpressionValue(MatchValue(FooBar, ValueTypeReflect, <<>>), MathOpValue, Nil),
      ExpressionValue(FooBar, MathOpValue, Nil) }

\* right sides carrying the raw literal baz: as the parser builds them, with
\* a *MatchValue in Left and nothing in Right, and with the string in Right
RightSides ==
    { ExpressionValue(MatchValue(NoSelector, ValueTypeString, s_baz), MathOpValue, Nil),
      ExpressionValue(Nil, MathOpValue, GoString(s_baz)) }

\* match expressions built by hand; only an operator without a Value line
\* can have no right side
BuiltMatches ==
    {MatchExpression(l, op, r) :
        l \in LeftSides, op \in ValueLineOperators \cup {MatchMatches}, r \in RightSides}
    \cup {MatchExpression(l, op, Nil) :
            l \in LeftSides, op \in {MatchIsEmpty, MatchIsNotEmpty, OutOfRangeOperator}}

\* the operands of the boolean nodes built by hand
BuiltOperands ==
    {MatchExpression(l, MatchIsEmpty, Nil) : l \in LeftSides}
    \cup {MatchExpression(l, MatchEqual, r) : l \in LeftSides, r \in RightSides}

BuiltUnaries ==
    {UnaryExpression(op, x) : op \in {UnaryOpNot, OutOfRangeOperator}, x \in BuiltOperands}

BuiltBinaries ==
    {BinaryExpression(x, op, x) :
        op \in {BinaryOpAnd, BinaryOpOr, OutOfRangeOperator}, x \in BuiltOperands}

BuiltExpressions ==
    BuiltMatches \cup BuiltUnaries \cup BuiltBinaries
    \cup {UnaryExpression(UnaryOpNot, x) : x \in BuiltBinaries}

\* the predicates whose parsed AST is dumped
DumpTexts ==
    UNION {MatchTexts(t_foo_bar, op, StrTok(s_baz)) : op \in MatchOperators}
    \cup { <<t_not, t_foo_bar, t_is, t_empty>>,
           <<t_foo_bar, t_is, t_empty, t_and, t_foo_bar, Sym("=="), StrTok(s_baz)>>,
           <<t_foo_bar, t_is, t_empty, t_or, t_foo_bar, t_is, t_not, t_empty>>,
           <<t_foo_bar>> }

InitDump ==
    /\ \/ pc = "input" /\ text \in DumpTexts /\ ast = Nil
       \/ pc = "built" /\ text = <<>> /\ ast \in BuiltExpressions
    /\ datum = Nil
    /\ withUnknown = Unset
    /\ result = NoResult
    /\ out = <<>>
    /\ indent = <<>>
    /\ level = 0
    /\ nots = 0
    /\ operand = Nil

\* ast.ExpressionDump(w, unit, lvl) on an empty writer
Dump(unit, lvl) ==
    /\ pc \in {"parsed", "built"}
    /\ pc' = "dumped"
    /\ indent' = unit
    /\ level' = lvl
    /\ out' = ExpressionDump(ast, unit, lvl)
    /\ UNCHANGED <<text, ast, datum, withUnknown, result, nots, operand>>

NextDump ==
    \/ ParseText
    \/ \E unit \in IndentUnits, lvl \in 0..MaxLevel : Dump(unit, lvl)

SpecDump == InitDump /\ [][NextDump]_vars

(***************************************************************************)
(* Properties of the dump.                                                 *)
(***************************************************************************)
\* the left side carries the selector foo.bar
CarriesFooBar(side) ==
    \/ "Path" \in DOMAIN side.Left /\ side.Left = FooBar
    \/ "Raw" \in DOMAIN side.Left /\ side.Left.Selector = FooBar

\* the right side carries the raw literal baz
CarriesBaz(side) ==
    \/ "Raw" \in DOMAIN side.Left /\ side.Left.Raw = s_baz
    \/ side.Right = GoString(s_baz)

\* a match with Equal, NotEqual, In or NotIn, the selector foo.bar and the raw
\* literal baz has been dumped
ValueMatchDumped ==
    /\ pc = "dumped"
    /\ ast.n = "MatchExpression"
    /\ ast.Operator \in {MatchEqual, MatchNotEqual, MatchIn, MatchNotIn}
    /\ CarriesFooBar(ast.Left)
    /\ CarriesBaz(ast.Right)

\* the four lines the dump of such a match is said to be
FourLines(name) ==
    Repeat(indent, level) \o name \o s_open
        \o Repeat(indent, level + 1) \o s_selector_label
        \o <<"f", "o", "o", ".", "b", "a", "r">> \o s_newline
        \o Repeat(indent, level + 1) \o s_value_label
        \o <<"\"", "b", "a", "z", "\"">> \o s_newline
        \o Repeat(indent, level) \o s_close

\* how many line ends the string holds
Lines(s) == Cardinality({j \in 1..Len(s) : s[j] = "\n"})

\* a match whose operator is IsEmpty, IsNotEmpty or out of range: opening
\* line with the operator name, one Selector line, closing line
NoValueLine ==
    (/\ pc = "dumped"
     /\ ast.n = "MatchExpression"
     /\ ast.Operator \in {MatchIsEmpty, MatchIsNotEmpty, OutOfRangeOperator})
    => /\ Lines(out) = 3
       /\ HasPrefix(out, Repeat(indent, level) \o MatchOperatorString(ast.Operator)
                             \o s_open \o Repeat(indent, level + 1) \o s_selector_label)
       /\ ast.Operator = OutOfRangeOperator => MatchOperatorString(ast.Operator) = s_unknown

\* a boolean node: operator name and brace, the children at the next level,
\* closing brace
BooleanNodes ==
    /\ (pc = "dumped" /\ ast.n = "UnaryExpression")
       => out = Repeat(indent, level) \o UnaryOperatorString(ast.Operator) \o s_open
                  \o ExpressionDump(ast.Operand, indent, level + 1)
                  \o Repeat(indent, level) \o s_close
    /\ (pc = "dumped" /\ ast.n = "BinaryExpression")
       => out = Repeat(indent, level) \o BinaryOperatorString(ast.Operator) \o s_open
                  \o ExpressionDump(ast.Left, indent, level + 1)
                  \o ExpressionDump(ast.Right, indent, level + 1)
                  \o Repeat(indent, level) \o s_close

\* C9: the dump of a match with operator Equal, NotEqual, In or NotIn, the
\* selector foo.bar on the left and the raw literal baz on the right is the
\* opening line with the operator name, the line `Selector: foo.bar`, the
\* line `Value: "baz"` and the closing line, at the indent of the level;
\* IsEmpty, IsNotEmpty and out-of-range operators have no Value line, an
\* out-of-range operator is named UNKNOWN, and boolean nodes dump their
\* children one level deeper between the operator line and the closing line.
C9_DumpFormat ==
    /\ ValueMatchDumped => out = FourLines(MatchOperatorString(ast.Operator))
    /\ NoValueLine
    /\ BooleanNodes

(***************************************************************************)
(* Two evaluations that share one AST.  Each evaluation walks the boolean  *)
(* nodes as evaluate does and evaluates one leaf (a match expression or a  *)
(* bare value) per step, reading the leaf from the shared AST at that      *)
(* moment and storing back what the evaluator assigned to its fields.  In  *)
(* this specification pc, datum, withUnknown, result and operand hold one  *)
(* entry per evaluation; operand[p] maps the positions of the leaves that  *)
(* evaluation p has evaluated to their results.                            *)
(***************************************************************************)
Evaluations == {1, 2}

RECURSIVE NodeAt(_, _)
\* the node of the AST at a position
NodeAt(node, pos) ==
    IF pos = <<>> THEN node ELSE NodeAt(node[Head(pos)], Tail(pos))

RECURSIVE ReplaceAt(_, _, _)
\* the AST with the field at a position assigned
ReplaceAt(node, pos, new) ==
    IF pos = <<>> THEN new
    ELSE [node EXCEPT ![Head(pos)] = ReplaceAt(@, Tail(pos), new)]

\* the walk has a leaf left to evaluate, at a position
At(pos) == [fin |-> FALSE, at |-> pos, res |-> NoResult]
\* the walk is over, with a result
Finished(res) == [fin |-> TRUE, at |-> <<>>, res |-> res]

\* the UnaryExpression case of evaluate on the state of its operand's walk
UnaryStep(node, s) ==
    IF node.Operator # UnaryOpNot
    THEN Finished(Ret(GoBool(FALSE), "Invalid AST node", {}))
    ELSE IF ~s.fin \/ s.res.panic THEN s
    ELSE IF K(s.res.val) # "bool" THEN Finished(Panics({}))
    ELSE Finished(Ret(GoBool(~V(s.res.val)), s.res.err, {}))

\* the BinaryExpression case of evaluate on the states of its operands' walks
BinaryStep(node, l, r) ==
    IF node.Operator \notin {BinaryOpAnd, BinaryOpOr}
    THEN Finished(Ret(GoBool(FALSE), "Invalid AST node", {}))
    ELSE IF ~l.fin \/ l.res.panic \/ l.res.err # NoError THEN l
    ELSE IF K(l.res.val) # "bool" THEN Finished(Panics({}))
    ELSE IF V(l.res.val) = (node.Operator = BinaryOpOr) THEN l
    ELSE r

RECURSIVE Pending(_, _, _)
\* the walk of evaluate over the node at pos, the leaves in DOMAIN done
\* having been evaluated with the results done gives them
Pending(node, pos, done) ==
    CASE node.n = "UnaryExpression" ->
            UnaryStep(node, Pending(node.Operand, pos \o <<"Operand">>, done))
      [] node.n = "BinaryExpression" ->
            BinaryStep(node, Pending(node.Left, pos \o <<"Left">>, done),
                       Pending(node.Right, pos \o <<"Right">>, done))
      [] OTHER -> IF pos \in DOMAIN done THEN Finished(done[pos]) ELSE At(pos)

\* the assignments to fields of the leaf that its evaluation would make if
\* doMatchMatches kept the compiled pattern in expression.Right.Left.Converted
AssignmentsCachingPattern(leaf, d, unknown) ==
    IF leaf.n = "MatchExpression"
       /\ leaf.Operator \in {MatchMatches, MatchNotMatches}
       /\ leaf.Right.Left.n = "MatchValue"
    THEN LET r == evaluate(leaf, d, unknown, <<>>)
             pattern == getExprValue(leaf.Right, d, unknown, <<>>)
         IN  IF ~r.panic /\ r.err = NoError /\ pattern.seen \subseteq r.seen
                /\ K(pattern.val) = "string"
             THEN {<< <<"Right", "Left", "Converted">>, [regexp |-> V(pattern.val)]>>}
             ELSE {}
    ELSE {}

\* the assignments to fields of the leaf, as <<field position, value>>, that
\* its evaluation makes: the evaluator has no statement that assigns a field
\* of a node, the one in doMatchMatches being commented out
Assignments(leaf, d, unknown) == {}

RECURSIVE Assigned(_, _)
\* the node after the assignments
Assigned(node, assignments) ==
    IF assignments = {} THEN node
    ELSE LET a == CHOOSE x \in assignments : TRUE
         IN  Assigned(ReplaceAt(node, a[1], a[2]), assignments \ {a})

NoLeaves == [pos \in {} |-> NoResult]

SharedPredicates ==
    { <<t_foo_bar, t_matches, StrTok(s_baz)>>,
      <<t_foo_bar, t_matches, t_qux>>,
      <<t_foo_bar, Sym("=="), StrTok(s_baz), t_and, t_ver, Sym(">="), IntTok(<<"3">>)>>,
      <<t_not, t_foo_bar_baz, Sym("=="), IntTok(<<"1">>)>>,
      <<StrTok(s_a), t_in, t_tags, t_or, t_foo_bar, t_not, t_matches, StrTok(s_badre)>>,
      <<t_ver, Sym("+"), IntTok(<<"1">>)>> }

SharedDatums ==
    { GoMap(s_foo :> GoMap(s_bar :> GoString(s_baz)) @@ s_ver :> GoInt(5)
                @@ s_tags :> GoSlice(<<GoString(s_x), GoString(s_a), GoString(s_y)>>)),
      GoMap(s_foo :> GoMap(s_bar :> GoString(s_qux)) @@ s_ver :> GoInt(2)
                @@ s_tags :> GoString(s_banana) @@ s_qux :> GoString(s_qux)),
      GoMap(s_foo :> EmptyMap @@ s_ver :> GoInt(5)),
      EmptyMap }

InitShared ==
    /\ pc = [p \in Evaluations |-> "running"]
    /\ text \in SharedPredicates
    /\ ast = Parse(text).ast
    /\ datum \in [Evaluations -> SharedDatums]
    /\ withUnknown \in [Evaluations -> {Unset, GoString(s_baz)}]
    /\ result = [p \in Evaluations |-> NoResult]
    /\ out = <<>>
    /\ indent = <<>>
    /\ level = 0
    /\ nots = 0
    /\ operand = [p \in Evaluations |-> NoLeaves]

\* evaluation p evaluates the next leaf of its walk
EvaluateLeaf(p) ==
    /\ pc[p] = "running"
    /\ ~Pending(ast, <<>>, operand[p]).fin
    /\ LET pos == Pending(ast, <<>>, operand[p]).at
       IN  /\ operand' = [operand EXCEPT ![p] =
                            (pos :> evaluate(NodeAt(ast, pos), datum[p], withUnknown[p], pos))
                                @@ @]
           /\ ast' = ReplaceAt(ast, pos,
                               Assigned(NodeAt(ast, pos),
                                        Assignments(NodeAt(ast, pos), datum[p],
                                                    withUnknown[p])))
    /\ UNCHANGED <<pc, text, datum, withUnknown, result, out, indent, level, nots>>

\* the root call of evaluation p returns
Return(p) ==
    /\ pc[p] = "running"
    /\ Pending(ast, <<>>, operand[p]).fin
    /\ pc' = [pc EXCEPT ![p] = "done"]
    /\ result' = [result EXCEPT ![p] = Pending(ast, <<>>, operand[p]).res]
    /\ UNCHANGED <<text, ast, datum, withUnknown, out, indent, level, nots, operand>>

NextShared == \E p \in Evaluations : EvaluateLeaf(p) \/ Return(p)

SpecShared == InitShared /\ [][NextShared]_vars

\* what a caller observes of a result: the value, the error, or the panic
Outcome(res) == [val |-> res.val, err |-> res.err, panic |-> res.panic]

\* evaluation p has returned what it returns when run alone on the AST as
\* parsed
SameAsAlone(p) ==
    pc[p] = "done"
    => Outcome(result[p])
         = Outcome(evaluate(Parse(text).ast, datum[p], withUnknown[p], <<>>))

s_b == <<"b">>
s_ab == <<"a", "b">>
s_abc == <<"a", "b", "c">>
s_2 == <<"2">>
s_2_5 == <<"2", ".", "5">>
s_0_5 == <<"0", ".", "5">>

t_a == Word(<<s_a>>)
t_b == Word(<<s_b>>)

MathOperatorTokens == {Sym("+"), Sym("-"), Sym("*"), Sym("/")}

\* literals written for the right operand
LiteralOperands ==
    {IntTok(<<"0">>), IntTok(s_2), FloatTok(s_2_5), FloatTok(s_0_5), StrTok(s_abc),
     Word(<<s_true>>)}

OperandPredicates ==
    UNION {MatchTexts(t_a, op, t_b) : op \in MatchOperators}
        \cup {<<t_a>>}
        \cup {<<t_a, op, t_b>> : op \in MathOperatorTokens}
        \cup {<<t_a>> \o OperatorTokens(op) \o <<lit>> :
                 op \in {MatchEqual, MatchLower, MatchHigherOrEqual},
                 lit \in LiteralOperands}
        \cup {<<lit>> \o OperatorTokens(MatchEqual) \o <<t_b>> : lit \in LiteralOperands}
        \cup {<<t_a, op, lit>> : op \in MathOperatorTokens, lit \in LiteralOperands}

\* the values a datum gives an operand
OperandValues ==
    { GoBool(TRUE), GoBool(FALSE),
      GoInt(0), GoInt(2), GoInt64(3),
      GoFloat64(Float(0, 1)), GoFloat64(Float(2, 1)), GoFloat64(Float(5, 2)),
      GoString(<<>>), GoString(s_ab), GoString(s_abc), GoString(s_2),
      GoString(s_2_5), GoString(s_true),
      EmptyMap, GoMap(s_ab :> GoInt(2)),
      GoSlice(<<>>), GoSlice(<<GoInt(2), GoString(s_ab)>>),
      Nil }

\* the datum {a: x, b: y}
OperandDatum(x, y) == GoMap(s_a :> x @@ s_b :> y)

InitOperands ==
    /\ pc = "input"
    /\ text \in OperandPredicates
    /\ ast = Nil
    /\ datum = Nil
    /\ withUnknown = Unset
    /\ result = NoResult
    /\ out = <<>>
    /\ indent = <<>>
    /\ level = 0
    /\ nots = 0
    /\ operand = Nil

NextOperands ==
    \/ ParseText
    \/ \E x \in OperandValues, y \in OperandValues : Evaluate(OperandDatum(x, y), Unset)

SpecOperands == InitOperands /\ [][NextOperands]_vars

\* the predicate `a op b` has been evaluated
Evaluated(op) ==
    /\ pc = "evaluated"
    /\ text \in MatchTexts(t_a, op, t_b)

\* the values of the operands a and b of the evaluated datum
ValueOfA == V(datum)[s_a]
ValueOfB == V(datum)[s_b]

\* the evaluation returned this boolean and no error
Returns(b) == ~result.panic /\ result.err = NoError /\ result.val = GoBool(b)

\* the evaluation returned an error
Fails == ~result.panic /\ result.err # NoError

(***************************************************************************)
(* Properties of the match and math operators.                             *)
(***************************************************************************)
ComparisonOperators ==
    {MatchEqual, MatchNotEqual, MatchLower, MatchLowerOrEqual, MatchHigher,
     MatchHigherOrEqual}

PrimitiveKinds == {"bool", "int", "int64", "float64", "string"}

\* C13: for each of Equal, NotEqual, Lower, LowerOrEqual, Higher and
\* HigherOrEqual, a left value that is present and whose kind is none of
\* bool, integer, float and string makes the evaluation return an error and
\* no boolean result.
C13_NonPrimitiveLeftFails ==
    \A op \in ComparisonOperators :
        (Evaluated(op) /\ Kind(ValueOfA) \notin PrimitiveKinds) => Fails

\* a bare ExpressionValue with a math operator has been evaluated
MathCase == pc = "evaluated" /\ ast.n = "ExpressionValue" /\ ast.Operator # MathOpValue

\* a bare ExpressionValue with the identity operator has been evaluated
IdentityCase == pc = "evaluated" /\ ast.n = "ExpressionValue" /\ ast.Operator = MathOpValue

\* the values of the two operands of the evaluated ExpressionValue
LeftValue == getValue(ast.Left, datum, withUnknown).val
RightValue == getValue(ast.Right, datum, withUnknown).val

\* the table of the claim: the operators that the right value's kind has,
\* the left value being of the same kind
InTable(operator, l, r) ==
    /\ K(l) = K(r)
    /\ \/ K(r) \in {"bool", "string"} /\ operator = MathOpPlus
       \/ K(r) \in {"int64", "float64"}

\* the value the table gives
TableValue(operator, l, r) ==
    CASE K(r) = "bool" -> GoBool(V(l) /\ V(r))
      [] K(r) = "string" -> GoString(V(l) \o V(r))
      [] K(r) = "int64" ->
            GoInt64(CASE operator = MathOpPlus -> V(l) + V(r)
                      [] operator = MathOpMinus -> V(l) - V(r)
                      [] operator = MathOpMul -> V(l) * V(r)
                      [] operator = MathOpDiv -> GoDiv(V(l), V(r)))
      [] K(r) = "float64" ->
            GoFloat64(CASE operator = MathOpPlus -> FloatAdd(V(l), V(r))
                        [] operator = MathOpMinus -> FloatSub(V(l), V(r))
                        [] operator = MathOpMul -> FloatMul(V(l), V(r))
                        [] operator = MathOpDiv -> FloatDiv(V(l), V(r)))

\* C14: an ExpressionValue with + - * / computes by the right value's kind
\* (bool: + is and; int64 and float64: the arithmetic; string: + is
\* concatenation); any other combination of operator and operands, a left
\* operand of another kind than the right included, returns the error
\* "unknown types for math op"; the identity operator returns the left value.
C14_MathTable ==
    /\ MathCase =>
          IF InTable(ast.Operator, LeftValue, RightValue)
          THEN /\ ~result.panic
               /\ result.err = NoError
               /\ result.val = TableValue(ast.Operator, LeftValue, RightValue)
          ELSE /\ ~result.panic
               /\ result.err = "unknown types for math op"
    /\ IdentityCase =>
          ~result.panic /\ result.err = NoError /\ result.val = LeftValue

\* `v in c` (In) or `v not in c` (NotIn) has been evaluated, in either
\* surface form; c is the operand a and v the operand b
InCase == Evaluated(MatchIn) \/ Evaluated(MatchNotIn)

\* what In is said to return for the searched value v and the container c:
\* the boolean found, or the error
InExpected(v, c) ==
    CASE K(c) = "map" -> [found |-> K(v) = "string" /\ V(v) \in DOMAIN V(c), err |-> NoError]
      [] K(c) = "slice" ->
            [found |-> \E i \in 1..Len(V(c)) :
                          Apply(primitiveEqualityFn(v), V(c)[i], v),
             err |-> NoError]
      [] K(c) = "string" ->
            [found |-> K(v) = "string" /\ Contains(V(c), V(v)), err |-> NoError]
      [] OTHER -> [found |-> FALSE,
                   err |-> "Cannot perform in/contains operations on type"]

\* the sequence c can be searched for v: a primitive equality function
\* exists for v's kind
Searchable(v, c) == K(c) = "slice" => primitiveEqualityFn(v) # "nil"

\* C15: with both operands present, `v in c` is true iff v is a key of the
\* map c, or equals an element of the sequence c under the primitive
\* equality function of v's kind, or is a substring of the string c; for c of
\* any other kind the evaluation returns the error "Cannot perform
\* in/contains operations on type"; NotIn is the negation.
C15_InByKind ==
    (InCase /\ Searchable(ValueOfB, ValueOfA)) =>
        LET expected == InExpected(ValueOfB, ValueOfA)
        IN  IF expected.err # NoError
            THEN ~result.panic /\ result.err = expected.err
            ELSE Returns(expected.found = Evaluated(MatchIn))

\* the evaluation of `a op b` against the evaluated datum
EvaluationOf(op) ==
    evaluate(Parse(<<t_a>> \o OperatorTokens(op) \o <<t_b>>).ast, datum, withUnknown,
             <<>>)

\* the evaluation returned a boolean and no error
Succeeded(res) == ~res.panic /\ res.err = NoError /\ K(res.val) = "bool"

\* `a < b` and `a == b` both succeed on the evaluated datum
LowerAndEqualSucceed ==
    Succeeded(EvaluationOf(MatchLower)) /\ Succeeded(EvaluationOf(MatchEqual))

\* the results of `a < b` and of `a == b` on the evaluated datum
Lower == V(EvaluationOf(MatchLower).val)
Equal == V(EvaluationOf(MatchEqual).val)

\* C16: on operands for which Lower and Equal both succeed, Higher returns
\* (not Lower) and (not Equal), LowerOrEqual returns Equal or Lower, and
\* HigherOrEqual returns not Lower.
C16_DerivedOrderings ==
    /\ (Evaluated(MatchHigher) /\ LowerAndEqualSucceed) => Returns(~Lower /\ ~Equal)
    /\ (Evaluated(MatchLowerOrEqual) /\ LowerAndEqualSucceed) => Returns(Equal \/ Lower)
    /\ (Evaluated(MatchHigherOrEqual) /\ LowerAndEqualSucceed) => Returns(~Lower)

\* `a > b` has been evaluated on two equal integers, for which Lower and
\* Equal succeed, Lower with false and Equal with true
C16_Witness ==
    /\ Evaluated(MatchHigher)
    /\ ValueOfA = GoInt(2)
    /\ ValueOfB = GoInt(2)
    /\ LowerAndEqualSucceed
    /\ ~Lower /\ Equal
    /\ Returns(FALSE)

\* the text of a value, which the primitive functions coerce
TextOf(value) == GoString(Sprint(value))

\* what Lower is said to compute for the operands a and b, by the kind of a
LowerByKind(a, b) ==
    CASE Kind(a) \in {"int", "int64"} ->
            CoerceInt64(TextOf(a)).v < CoerceInt64(TextOf(b)).v
      [] Kind(a) = "float64" ->
            FloatLess(CoerceFloat64(TextOf(a)).v, CoerceFloat64(TextOf(b)).v)
      [] Kind(a) = "bool" -> CoerceBool(TextOf(a)).v /\ ~CoerceBool(TextOf(b)).v
      [] Kind(a) = "string" -> HasPrefix(Sprint(b), V(a))

\* C17: Lower(a, b) is computed by the primitive function of the kind of the
\* left value a alone, both operands coerced to that kind: a < b on int64
\* for the integer kinds, a < b on float64 for the float kinds, a and not b
\* for bool, and for strings b starts with a, so that Lower(a, a) is true.
C17_LowerByLeftKind ==
    /\ (Evaluated(MatchLower) /\ Kind(ValueOfA) \in PrimitiveKinds)
          => Returns(LowerByKind(ValueOfA, ValueOfB))
    /\ (Evaluated(MatchLower) /\ K(ValueOfA) = "string" /\ ValueOfB = ValueOfA)
          => Returns(TRUE)

\* `a < b` has been evaluated on the strings ab and abc, and is true
C17_Witness ==
    /\ Evaluated(MatchLower)
    /\ ValueOfA = GoString(s_ab)
    /\ ValueOfB = GoString(s_abc)
    /\ Returns(TRUE)

\* the family of a primitive kind: the integer kinds are one family
Family(value) == IF IsIntKind(Kind(value)) THEN "integer" ELSE Kind(value)

\* the operands are of the same primitive kind
SamePrimitiveKind ==
    /\ Kind(ValueOfA) \in PrimitiveKinds
    /\ Family(ValueOfA) = Family(ValueOfB)

\* `a op b` evaluates to true on the evaluated datum
IsTrue(op) ==
    Succeeded(EvaluationOf(op)) /\ V(EvaluationOf(op).val)

\* C18: for operands a and b of the same primitive kind, `a >= b` evaluates
\* to true iff `a > b` evaluates to true or `a == b` evaluates to true.
C18_OrderingsConsistent ==
    (Evaluated(MatchHigherOrEqual) /\ SamePrimitiveKind)
        => (Returns(TRUE) <=> (IsTrue(MatchHigher) \/ IsTrue(MatchEqual)))

\* the right operand cannot be coerced to the integer or float kind of the
\* left operand
CoercionFails ==
    \/ IsIntKind(Kind(ValueOfA)) /\ ~CoerceInt64(TextOf(ValueOfB)).ok
    \/ Kind(ValueOfA) = "float64" /\ ~CoerceFloat64(TextOf(ValueOfB)).ok

\* C19: when the left value is of an integer or float kind and the right
\* value cannot be coerced to that kind, `left == right` and `left < right`
\* do not evaluate to true; a left value 0 is not equal to a string that is
\* no number.
C19_NoMatchThroughFailedCoercion ==
    ((Evaluated(MatchEqual) \/ Evaluated(MatchLower)) /\ CoercionFails)
        => ~Returns(TRUE)

====
